---- MODULE Spec2Model ----
(***************************************************************************)
(* Model of pkg/composite (composite.go): the Reconciler that applies the  *)
(* desired children of a composite parent, tracks the kinds deployed under *)
(* the parent in an annotation, and prunes the children no longer desired. *)
(* The storage client (Get/List/Patch/Update/Delete) is modelled by its    *)
(* contract; every call of it may fail.                                    *)
(***************************************************************************)
EXTENDS Integers, Sequences, FiniteSets, TLC

(* ------------------------------ bounds -------------------------------- *)
\* number of public calls (Reconcile, ReconcileWithoutPrune, Prune) in a run
MaxCalls == 3
\* number of storage calls that fail in a run
MaxFailures == 2
\* number of writes by an external actor in a run
MaxExternal == 1
\* length of the kind lists EnsureKinds is called with on its own
MaxKinds == 3
\* length of the kind lists a state holds when a function is called on it
MaxHistorical == 2
\* number of operation results the error functions are called with
MaxResults == 3
\* number of children whose label maps markDesiredKinds is called with
MaxLabelled == 2

(* ------------------------------ values -------------------------------- *)
\* UID of the parent this Reconciler is bound to, and of some other parent
ParentUID == "P"
OtherUID == "Q"
NoLabel == "none"
\* a UID is the key it was created under and how many objects were created
\* under that key before it: storage never hands out the same UID twice
UID(key, n) == [kind |-> key.kind, name |-> key.name, n |-> n]
NoUID == [kind |-> "", name |-> "", n |-> 0]
NoObj == [uid |-> NoUID]

\* field manager of the reconciler (owner) and of anybody else
Owner == "games.wellplayed.composite"
OtherManager == "other"

DefaultType == "ClusterIP"
ExternalType == "LoadBalancer"
DesiredPort == "80"
ExternalPort == "8080"

GVK(kind, version) == [group |-> "", version |-> version, kind |-> kind]

\* a desired child as the caller hands it over: no UID yet, and whatever
\* value it has under the parent label
NewChild(kind, version, name, label) ==
    [gvk |-> GVK(kind, version), name |-> name, namespace |-> "default",
     label |-> label, owner |-> FALSE, port |-> DesiredPort,
     uid |-> NoUID, rv |-> 0, type |-> DefaultType, fault |-> "none"]
\* a child that markDesiredKinds cannot handle: its kind is not in the
\* scheme ("kind"), its metadata cannot be accessed ("meta"), or the parent
\* cannot be set as its controller ("owner")
FaultyChild(child, fault) == [child EXCEPT !.fault = fault]

ChildPool ==
    { NewChild("Service", "v1", "a", NoLabel),
      NewChild("Service", "v2", "b", NoLabel),
      NewChild("ConfigMap", "v1", "a", OtherUID) }

\* the desired lists a caller passes: up to two children, in any order
DesiredLists ==
    {<<>>} \cup {<<c>> : c \in ChildPool}
           \cup {<<c, d>> : c \in ChildPool, d \in ChildPool}

\* desired lists with a child that cannot be handled, alone or beside a
\* child that can
FaultyLists ==
    LET good == NewChild("Service", "v1", "a", NoLabel)
        bad == {FaultyChild(NewChild("Service", "v2", "b", NoLabel), "kind"),
                FaultyChild(NewChild("ConfigMap", "v1", "a", NoLabel), "meta"),
                FaultyChild(NewChild("ConfigMap", "v1", "b", NoLabel), "owner")}
    IN {<<>>, <<good>>} \cup {<<c>> : c \in bad}
          \cup {<<good, c>> : c \in bad} \cup {<<c, good>> : c \in bad}

Kinds == {c.gvk.kind : c \in ChildPool}
NameOrder == <<"a", "b">>
Key(kind, name) == [kind |-> kind, name |-> name]
Keys == {Key(k, NameOrder[i]) : k \in Kinds, i \in 1..Len(NameOrder)}
KeyOf(child) == Key(child.gvk.kind, child.name)
ParentKey == Key("TestResource", "parent")

(* ------------------------------ errors -------------------------------- *)
NilErr == [tag |-> "nil", causes |-> <<>>]
StorageErrSwallowed(call, target) == [tag |-> "nil", causes |-> <<>>]
StorageErr(call, target) ==
    [tag |-> "single", causes |-> <<[call |-> call, target |-> target]>>]
\* &permanentError{err}
transientError(err) == [tag |-> "single", causes |-> err.causes]
permanentError(err) == [tag |-> "permanent", causes |-> err.causes]
\* the error of a step that is no storage call
StepErr(step, target) ==
    [tag |-> "single", causes |-> <<[call |-> step, target |-> target]>>]
IsPermanentError(err) == err.tag = "permanent"

\* tinyerrors.Append(existing, next)
ErrAppendWrapping(existing, next) ==
    IF next.tag = "nil" THEN existing
    ELSE [tag |-> "composite", causes |-> existing.causes \o next.causes]
ErrAppend(existing, next) ==
    IF next.tag = "nil" THEN existing
    ELSE IF existing.tag = "nil" THEN next
    ELSE [tag |-> "composite", causes |-> existing.causes \o next.causes]

\* tinyerrors.Append(existing, next...): several at once
RECURSIVE AppendAllButLast(_, _)
AppendAllButLast(existing, nexts) ==
    IF Len(nexts) <= 1 THEN existing
    ELSE AppendAllButLast(ErrAppend(existing, Head(nexts)), Tail(nexts))
RECURSIVE AppendAll(_, _)
AppendAll(existing, nexts) ==
    IF nexts = <<>> THEN existing
    ELSE AppendAll(ErrAppend(existing, Head(nexts)), Tail(nexts))

\* &compositeError{InnerErrors: inner}
compositeError(inner) == [tag |-> "composite", causes |-> inner]

(* --------------------------- kind tracking ---------------------------- *)
\* kindIndex: position of the (group, kind) in kinds, 0 for Go's -1
kindIndex(kinds, g) ==
    IF \E i \in 1..Len(kinds) : kinds[i].group = g.group /\ kinds[i].kind = g.kind
    THEN CHOOSE i \in 1..Len(kinds) :
            /\ kinds[i].group = g.group /\ kinds[i].kind = g.kind
            /\ \A j \in 1..(i - 1) :
                  ~(kinds[j].group = g.group /\ kinds[j].kind = g.kind)
    ELSE 0

\* one iteration of the loop of State.EnsureKinds
EnsureKindKeepsVersion(st, k) ==
    LET idx == kindIndex(st.kinds, k) IN
    IF idx = 0
    THEN [kinds |-> Append(st.kinds, k), changed |-> TRUE]
    ELSE st
EnsureKind(st, k) ==
    LET idx == kindIndex(st.kinds, k) IN
    IF idx = 0
    THEN [kinds |-> Append(st.kinds, k), changed |-> TRUE]
    ELSE IF st.kinds[idx].version # k.version
         THEN [kinds |-> [st.kinds EXCEPT ![idx] = k], changed |-> TRUE]
         ELSE st

RECURSIVE EnsureKindsFrom(_, _)
EnsureKindsFrom(st, kinds) ==
    IF kinds = <<>> THEN st
    ELSE EnsureKindsFrom(EnsureKind(st, Head(kinds)), Tail(kinds))

\* State.EnsureKinds: the merged list and whether any change was made
EnsureKinds(deployed, kinds) ==
    EnsureKindsFrom([kinds |-> deployed, changed |-> FALSE], kinds)

\* the assertedKinds bookkeeping of the loop of markDesiredKinds
MarkKindAppend(asserted, g) == Append(asserted, g)
MarkKind(asserted, g) ==
    LET idx == kindIndex(asserted, g) IN
    IF idx > 0 THEN [asserted EXCEPT ![idx] = g] ELSE Append(asserted, g)

RECURSIVE MarkKinds(_, _)
MarkKinds(asserted, cs) ==
    IF cs = <<>> THEN asserted
    ELSE MarkKinds(MarkKind(asserted, Head(cs).gvk), Tail(cs))

\* hasUID: whether uid is among uids
hasUIDButLast(uids, uid) == \E i \in 1..(Len(uids) - 1) : uids[i] = uid
hasUIDAtHead(uids, uid) == Len(uids) > 0 /\ uids[1] = uid
hasUID(uids, uid) == \E i \in 1..Len(uids) : uids[i] = uid

(* ------------------------- state annotation --------------------------- *)
\* The parent's annotations: whether the map exists (map), the value under
\* some key of somebody else (other), and the reserved key: whether it is
\* there (present) and what its text holds, whether it is well-formed JSON
\* of a State (valid) and which keys it has: "deployedKinds" is omitted for
\* an empty list (omitempty).
NoValue == "none"
NoAnnotation ==
    [map |-> FALSE, other |-> NoValue, present |-> FALSE, valid |-> TRUE,
     hasKinds |-> FALSE, deployedKinds |-> <<>>]
\* annotations holding the reserved key only, with the JSON text of kinds
Marshal(kinds) ==
    [map |-> TRUE, other |-> NoValue, present |-> TRUE, valid |-> TRUE,
     hasKinds |-> Len(kinds) > 0, deployedKinds |-> kinds]
\* annotations as somebody else may leave them: a map without the reserved
\* key, and a reserved key whose text is not JSON
ForeignAnnotations ==
    { [NoAnnotation EXCEPT !.map = TRUE, !.other = "x"],
      [NoAnnotation EXCEPT !.map = TRUE, !.other = "x", !.present = TRUE,
                           !.valid = FALSE] }
\* GetCompositeState: the error it returns
GetCompositeStateErrIgnored(anno) == NilErr
GetCompositeStateErr(anno) ==
    IF anno.map /\ anno.present /\ ~anno.valid
    THEN StepErr("Unmarshal", ParentKey) ELSE NilErr
\* GetCompositeState: the state it returns
GetCompositeStateOfNoKey(anno) == <<>>
GetCompositeState(anno) ==
    IF ~anno.map \/ ~anno.present \/ ~anno.valid THEN <<>>
    ELSE IF anno.hasKinds THEN anno.deployedKinds ELSE <<>>
\* SetCompositeState
SetCompositeStateInNewMap(anno, kinds) == Marshal(kinds)
SetCompositeState(anno, kinds) == [Marshal(kinds) EXCEPT !.other = anno.other]

(* ------------------------------ storage ------------------------------- *)
\* the options assertChildren passes to every Patch (client.Apply)
applyOptionsUpdate == [patchType |-> "update", force |-> TRUE, fieldOwner |-> Owner]
applyOptions == [patchType |-> "apply", force |-> TRUE, fieldOwner |-> Owner]

\* what the storage holds of a child once the body is written over obj
Written(obj, body, opts, uid) ==
    IF obj = NoObj
    THEN [uid |-> uid, rv |-> 1, label |-> body.label, owner |-> body.owner,
          port |-> body.port, portMgr |-> opts.fieldOwner, type |-> DefaultType]
    ELSE LET type == IF opts.patchType = "apply" THEN obj.type ELSE body.type
             new == [obj EXCEPT !.label = body.label, !.owner = body.owner,
                                !.port = body.port, !.portMgr = opts.fieldOwner,
                                !.type = type]
         IN IF new = obj THEN obj ELSE [new EXCEPT !.rv = obj.rv + 1]

\* an apply patch conflicts when another manager owns a field it changes and
\* ownership is not forced, and when the body names a UID that is not the
\* UID of the stored object
Conflicts(obj, body, opts) ==
    \/ /\ obj # NoObj
       /\ opts.patchType = "apply"
       /\ ~opts.force
       /\ obj.portMgr # opts.fieldOwner
       /\ obj.port # body.port
    \/ /\ body.uid # NoUID
       /\ obj.uid # body.uid

(* ------------------------------- state -------------------------------- *)
VARIABLES
    objects,        \* storage: Keys -> stored child or NoObj
    storedAnno,     \* storage: the state annotation of the persisted parent
    nextUID,        \* storage: Keys -> how many UIDs it has assigned there
    parentAnno,     \* the state annotation of the in-memory parent (r.parent)
    assertedUIDs,   \* r.assertedUIDs
    assertedKinds,  \* r.assertedKinds
    fresh,          \* no call was made yet on this Reconciler instance
    pc,             \* where the running call stands; "idle" between calls
    op,             \* the public operation that is running or ran last
    desired,        \* the children as passed to it
    children,       \* the in-memory children, mutated in place
    state,          \* its local state.DeployedKinds
    marked,         \* state.DeployedKinds as markDesiredKinds left it
    passError,      \* passError of assertChildren / prune
    idx,            \* loop index: child in assertChildren, kind in prune
    pending,        \* list items of the current kind still to be deleted
    ret,            \* what the last call returned
    log,            \* the storage calls the call has issued, in order
    pre,            \* storage and parent as they were when the call began
    prev,           \* the call before: op, desired, ret, instance, ...
    budget,         \* [calls, failures, externals] used so far
    harness,        \* a function called on its own: its inputs and results
    dryRun,         \* the dryRun argument of the running call
    dryResult,      \* what the caller keeps of a dry-run call that returned nil
    parents,        \* two parents side by side: parent UID -> its Reconciler
    sites,          \* two call sites reconciling the one parent at once
    patching,       \* the patch helpers: the stored object and the last call
    rollout         \* a rollout made at once and again in phases: see NoRollout

vars == <<objects, storedAnno, nextUID, parentAnno, assertedUIDs, assertedKinds,
          fresh, pc, op, desired, children, state, marked, passError, idx,
          pending, ret, log, pre, prev, budget, harness, dryRun, dryResult,
          parents, sites, patching, rollout>>

storageVars == <<objects, storedAnno, nextUID>>
instanceVars == <<assertedUIDs, assertedKinds>>

NoRet == [tag |-> "none", causes |-> <<>>]
\* pre: storage and parent when the call began, whether the instance it runs
\* on is fresh, and whether it is the instance the call before ran on
NoPre == [objects |-> [k \in Keys |-> NoObj], storedAnno |-> NoAnnotation,
          parentAnno |-> NoAnnotation, fresh |-> FALSE, again |-> FALSE]
\* prev: what the caller remembers of the call before: the operation, the
\* children it passed, whether it returned nil, whether the Reconciler it
\* ran on is still the caller's, whether the parent's state was empty when
\* it began, and whether an external actor wrote to storage after it
NoCall == [op |-> "none", desired |-> <<>>, ok |-> FALSE, here |-> FALSE,
           emptyBefore |-> FALSE, external |-> FALSE]

\* no function is called on its own
NoMerge == [kinds |-> <<>>, changed |-> FALSE]
NoOut == [done |-> FALSE, first |-> NoMerge, second |-> NoMerge,
          anno |-> NoAnnotation, state |-> <<>>, err |-> NilErr,
          atOnce |-> NilErr, grouped |-> {}, toNil |-> <<>>,
          ontoNil |-> <<>>, labels |-> <<>>]
NoHarness == [fn |-> "none", historical |-> <<>>, kinds |-> <<>>,
              anno |-> NoAnnotation, results |-> <<>>, labels |-> <<>>,
              out |-> NoOut]

\* the object the patch helpers are called with: its labels and its status
makeTestService == [labels |-> "", status |-> ""]
\* no patch helper was called; arg is newObj as it was passed, writes are the
\* writer calls the call issued
NoPatch == [type |-> "none", from |-> makeTestService]
NoPatching == [stored |-> makeTestService, fn |-> "none",
               arg |-> makeTestService, newObj |-> makeTestService,
               patch |-> NoPatch,
               writes |-> <<>>, patched |-> FALSE, err |-> NilErr]

\* a rollout of the children cs, made at once (Reconcile) and then again in
\* phases (ReconcileWithoutPrune, Prune) from the same beginning: start is
\* everything as it was at the beginning, atOnce the storage Reconcile left,
\* more the children of a further ReconcileWithoutPrune before Prune;
\* applied and kinds are what the calls of the instance at hand have written:
\* the children they have stored and the kinds they have persisted for them
\* (nothing is noted of a beginning or of a result before there is one)
NoStart == <<>>
NoStored == <<>>
NoRollout == [phase |-> "before", cs |-> <<>>, start |-> NoStart,
              atOnce |-> NoStored, more |-> <<>>, further |-> FALSE,
              applied |-> {}, kinds |-> {}]

\* no dry-run call has returned
NoDryResult == [valid |-> FALSE, desired |-> <<>>, keep |-> <<>>,
                deleted |-> <<>>, pre |-> NoPre]

\* two parents side by side, each with its Reconciler: the in-memory parent
\* (anno), the persisted parent (stored), the fields of the Reconciler, and
\* the position and locals of its running call; pre is the storage as it
\* was when the call began, fresh whether no call was made yet on the
\* Reconciler, onNew whether that was so when the call began
Parents == {ParentUID, OtherUID}
NoReconciler ==
    [pc |-> "idle", anno |-> NoAnnotation, stored |-> NoAnnotation,
     assertedUIDs |-> <<>>, assertedKinds |-> <<>>, desired |-> <<>>,
     children |-> <<>>, state |-> <<>>, passError |-> NilErr, idx |-> 1,
     pending |-> <<>>, ret |-> NoRet, pre |-> [k \in Keys |-> NoObj],
     fresh |-> TRUE, onNew |-> FALSE]

\* two call sites, each with the parent it has read from storage (anno, and
\* rv, its resourceVersion) and the Reconciler it has made for it; applied
\* and deleted are the children its running call has patched and deleted,
\* overlapped whether the other site's call ran during it, covered whether
\* the kind list it read held the kind of every child of the parent in
\* storage; parentRV is the resourceVersion of the parent in storage
Sites == {1, 2}
NoSite ==
    [pc |-> "idle", anno |-> NoAnnotation, rv |-> 0,
     assertedUIDs |-> <<>>, assertedKinds |-> <<>>, desired |-> <<>>,
     children |-> <<>>, state |-> <<>>, passError |-> NilErr, idx |-> 1,
     pending |-> <<>>, ret |-> NoRet, applied |-> {}, deleted |-> {},
     overlapped |-> FALSE, covered |-> FALSE]
NoSites == [parentRV |-> 0, of |-> [s \in Sites |-> NoSite]]

InitFrame ==
    /\ patching = NoPatching
    /\ rollout = NoRollout
    /\ objects = [k \in Keys |-> NoObj]
    /\ storedAnno = NoAnnotation
    /\ nextUID = [k \in Keys |-> 0]
    /\ parentAnno = NoAnnotation
    /\ assertedUIDs = <<>>
    /\ assertedKinds = <<>>
    /\ fresh = TRUE
    /\ pc = "idle"
    /\ op = "none"
    /\ desired = <<>>
    /\ children = <<>>
    /\ state = <<>>
    /\ marked = <<>>
    /\ passError = NilErr
    /\ idx = 1
    /\ pending = <<>>
    /\ ret = NoRet
    /\ log = <<>>
    /\ pre = NoPre
    /\ prev = NoCall
    /\ dryRun = FALSE
    /\ dryResult = NoDryResult
    /\ parents = [p \in Parents |-> NoReconciler]
    /\ sites = NoSites

\* the parent was just created and nothing has been reconciled
Init ==
    /\ InitFrame
    /\ budget = [calls |-> 0, failures |-> 0, externals |-> 0]
    /\ harness = NoHarness

\* the same, with a storage whose calls never fail
InitReliable ==
    /\ InitFrame
    /\ budget = [calls |-> 0, failures |-> MaxFailures, externals |-> 0]
    /\ harness = NoHarness

\* a storage call either succeeds or, while the budget lasts, fails
Outcomes == IF budget.failures < MaxFailures THEN {"ok", "io"} ELSE {"ok"}
Spend(res) ==
    IF res = "ok" THEN budget ELSE [budget EXCEPT !.failures = @ + 1]
Entry(call, target, res, label) ==
    [call |-> call, target |-> target, res |-> res, label |-> label]

(* ------------------------------ control ------------------------------- *)
Return(err) == pc' = "done" /\ ret' = err

\* prune: whether old types are to be removed from state
ShrinkWhenShorter(st, asserted) == Len(st) < Len(asserted)
ShrinkNeeded(st, asserted) == Len(st) # Len(asserted)

\* prune goes on with the k-th kind of st; past the last one it returns the
\* aggregated error, or shrinks the kind list, or is done
PruneGotoPastErrors(st, asserted, perr, k) ==
    /\ idx' = k
    /\ IF k <= Len(st) THEN pc' = "list" /\ ret' = ret
       ELSE IF ShrinkNeeded(st, asserted) THEN pc' = "shrink" /\ ret' = ret
       ELSE Return(NilErr)
PruneGoto(st, asserted, perr, k) ==
    /\ idx' = k
    /\ IF k <= Len(st) THEN pc' = "list" /\ ret' = ret
       ELSE IF perr # NilErr THEN Return(perr)
       ELSE IF ShrinkNeeded(st, asserted) THEN pc' = "shrink" /\ ret' = ret
       ELSE Return(NilErr)

\* assertChildren goes on with the i-th of n children; past the last one the
\* public operation returns passError, or prunes (Reconcile), or is done
ApplyGotoPruneAnyway(st, asserted, perr, i, n) ==
    IF i <= n THEN pc' = "apply" /\ idx' = i /\ ret' = ret
    ELSE IF op = "Reconcile" THEN PruneGoto(st, asserted, perr, 1)
    ELSE Return(perr) /\ idx' = i
ApplyGotoPruneFirst(st, asserted, perr, i, n) ==
    IF i <= n /\ (i > 1 \/ op # "Reconcile" \/ Len(st) = 0)
    THEN pc' = "apply" /\ idx' = i /\ ret' = ret
    ELSE IF perr # NilErr THEN Return(perr) /\ idx' = i
    ELSE IF op = "Reconcile" THEN PruneGoto(st, asserted, NilErr, 1)
    ELSE Return(NilErr) /\ idx' = i
ApplyGotoUntilFailure(st, asserted, perr, i, n) ==
    IF perr # NilErr THEN Return(perr) /\ idx' = i
    ELSE IF i <= n THEN pc' = "apply" /\ idx' = i /\ ret' = ret
    ELSE IF op = "Reconcile" THEN PruneGoto(st, asserted, NilErr, 1)
    ELSE Return(NilErr) /\ idx' = i
ApplyGoto(st, asserted, perr, i, n) ==
    IF i <= n THEN pc' = "apply" /\ idx' = i /\ ret' = ret
    ELSE IF perr # NilErr THEN Return(perr) /\ idx' = i
    ELSE IF op = "Reconcile" THEN PruneGoto(st, asserted, NilErr, 1)
    ELSE Return(NilErr) /\ idx' = i

(* ------------------------------ actions ------------------------------- *)
\* New: a Reconciler for the parent, with nothing asserted yet
NewReconciler ==
    /\ pc = "idle"
    /\ ~fresh
    /\ assertedUIDs' = <<>>
    /\ assertedKinds' = <<>>
    /\ fresh' = TRUE
    /\ prev' = [prev EXCEPT !.here = FALSE]
    /\ UNCHANGED <<harness, patching, sites, parents, dryRun, dryResult, storageVars, parentAnno, pc, op, desired, children, state,
                   marked, passError, idx, pending, ret, log, pre, budget>>
New == NewReconciler /\ UNCHANGED rollout

\* the caller reads the parent again from storage
RefetchParent ==
    /\ pc = "idle"
    /\ parentAnno # storedAnno
    /\ parentAnno' = storedAnno
    /\ UNCHANGED <<harness, patching, rollout, sites, parents, dryRun, dryResult, storageVars, instanceVars, fresh, pc, op, desired, children,
                   state, marked, passError, idx, pending, ret, log, pre, prev,
                   budget>>

\* entry of Reconcile, ReconcileWithoutPrune and Prune: GetCompositeState
Begin(o, cs) ==
    /\ pc = "idle"
    /\ budget.calls < MaxCalls
    /\ budget' = [budget EXCEPT !.calls = @ + 1]
    /\ pre' = [objects |-> objects, storedAnno |-> storedAnno,
               parentAnno |-> parentAnno, fresh |-> fresh,
               again |-> prev.here]
    /\ fresh' = FALSE
    /\ op' = o
    /\ desired' = cs
    /\ children' = cs
    /\ state' = GetCompositeState(parentAnno)
    /\ marked' = <<>>
    /\ passError' = NilErr
    /\ pending' = <<>>
    /\ log' = <<>>
    /\ IF GetCompositeStateErr(parentAnno) # NilErr
       THEN Return(permanentError(GetCompositeStateErr(parentAnno))) /\ idx' = 1
       ELSE IF o = "Prune"
       THEN PruneGoto(state', assertedKinds, NilErr, 1)
       ELSE pc' = "mark" /\ idx' = 1 /\ ret' = ret
    /\ UNCHANGED <<harness, patching, rollout, sites, parents, dryRun, dryResult, storageVars, parentAnno, instanceVars, prev>>

\* the call has returned: the caller keeps what it remembers of it
FinishCall ==
    /\ pc = "done"
    /\ pc' = "idle"
    /\ prev' = [op |-> op, desired |-> desired, ok |-> (ret = NilErr),
                here |-> TRUE,
                emptyBefore |-> /\ GetCompositeState(pre.parentAnno) = <<>>
                                /\ GetCompositeState(pre.storedAnno) = <<>>,
                external |-> FALSE]
    /\ op' = "none"
    /\ desired' = <<>>
    /\ children' = <<>>
    /\ state' = <<>>
    /\ marked' = <<>>
    /\ passError' = NilErr
    /\ idx' = 1
    /\ pending' = <<>>
    /\ ret' = NoRet
    /\ log' = <<>>
    /\ pre' = NoPre
    /\ UNCHANGED <<harness, patching, sites, parents, dryRun, dryResult, storageVars, parentAnno, instanceVars, fresh, budget>>
Finish == FinishCall /\ UNCHANGED rollout

Reconcile == \E cs \in DesiredLists : Begin("Reconcile", cs)
ReconcileWithoutPrune == \E cs \in DesiredLists : Begin("ReconcileWithoutPrune", cs)
Prune == Begin("Prune", <<>>)

\* markDesiredKinds: associate the child with the parent
LabelledChildOwnedAlways(child) ==
    [child EXCEPT !.label = ParentUID, !.owner = TRUE]
UnlabelledChild(child) ==
    [child EXCEPT !.owner = (child.namespace # "")]
LabelledChild(child) ==
    [child EXCEPT !.label = ParentUID, !.owner = (child.namespace # "")]

\* whether the loop of markDesiredKinds fails at the child: the parent is
\* set as controller of a child with a namespace only
Fails(child) ==
    /\ child.fault # "none"
    /\ ~(child.fault = "owner" /\ child.namespace = "")
\* the first child of cs the loop of markDesiredKinds fails at, 0 if none
FirstFaultPastKinds(cs) ==
    IF \A i \in 1..Len(cs) : ~Fails(cs[i]) \/ cs[i].fault = "kind" THEN 0
    ELSE CHOOSE i \in 1..Len(cs) :
            /\ Fails(cs[i]) /\ cs[i].fault # "kind"
            /\ \A j \in 1..(i - 1) : ~Fails(cs[j]) \/ cs[j].fault = "kind"
FirstFault(cs) ==
    IF \A i \in 1..Len(cs) : ~Fails(cs[i]) THEN 0
    ELSE CHOOSE i \in 1..Len(cs) :
            Fails(cs[i]) /\ \A j \in 1..(i - 1) : ~Fails(cs[j])
\* the step of the loop a faulty child fails at
FaultStep(child) ==
    IF child.fault = "kind" THEN "GVKForObject"
    ELSE IF child.fault = "meta" THEN "Accessor"
    ELSE "SetControllerReference"

markDesiredKinds ==
    /\ pc = "mark"
    /\ LET f == FirstFault(children) IN
       IF f > 0
       THEN \* the loop returns a permanent error at child f: the kinds of
            \* the children before it are asserted, and its own unless the
            \* kind could not be resolved; the labels are set likewise
            LET n == IF children[f].fault = "kind" THEN f - 1 ELSE f
            IN /\ assertedKinds' = MarkKinds(assertedKinds, SubSeq(children, 1, n))
               /\ children' = [i \in 1..Len(children) |->
                     IF i < f THEN LabelledChild(children[i])
                     ELSE IF i = f /\ children[f].fault = "owner"
                     THEN [children[i] EXCEPT !.label = ParentUID]
                     ELSE children[i]]
               /\ marked' = state
               /\ Return(permanentError(StepErr(FaultStep(children[f]),
                                                KeyOf(children[f]))))
               /\ UNCHANGED <<parentAnno, storedAnno, log, budget, state, idx>>
       ELSE
       LET asserted == MarkKinds(assertedKinds, children)
           ek == EnsureKinds(state, asserted)
       IN /\ children' = [i \in 1..Len(children) |-> LabelledChild(children[i])]
          /\ assertedKinds' = asserted
          /\ state' = ek.kinds
          /\ marked' = ek.kinds
          /\ IF ek.changed
             THEN \E res \in Outcomes :
                    /\ parentAnno' = SetCompositeState(parentAnno, ek.kinds)
                    /\ log' = Append(log, Entry("Update", ParentKey, res, NoLabel))
                    /\ budget' = Spend(res)
                    /\ IF res = "ok"
                       THEN /\ storedAnno' = parentAnno'
                            /\ ApplyGoto(ek.kinds, asserted, NilErr, 1, Len(children))
                       ELSE /\ storedAnno' = storedAnno
                            /\ Return(StorageErr("Update", ParentKey))
                            /\ idx' = idx
             ELSE /\ UNCHANGED <<parentAnno, storedAnno, log, budget>>
                  /\ ApplyGoto(ek.kinds, asserted, NilErr, 1, Len(children))
    /\ UNCHANGED <<harness, patching, rollout, sites, parents, dryRun, dryResult, objects, nextUID, assertedUIDs, fresh, op, desired, passError,
                   pending, pre, prev>>

\* one iteration of the loop of assertChildren: Patch, then record the UID
\* assertChildren: the keep-set with the UID of one more child
AppendUIDOfThisChild(uids, uid) == <<uid>>
AppendUID(uids, uid) == Append(uids, uid)

assertChildren ==
    /\ pc = "apply"
    /\ LET c == children[idx]
           k == KeyOf(c)
           obj == objects[k]
           new == Written(obj, c, applyOptions, UID(k, nextUID[k]))
       IN \E res \in (IF Conflicts(obj, c, applyOptions)
                      THEN {"conflict"} ELSE Outcomes) :
            /\ log' = Append(log, Entry("Patch", k, res, c.label))
            /\ budget' = Spend(IF res = "io" THEN "io" ELSE "ok")
            /\ IF res = "ok"
               THEN /\ objects' = [objects EXCEPT ![k] = new]
                    /\ nextUID' = IF obj = NoObj
                                  THEN [nextUID EXCEPT ![k] = @ + 1]
                                  ELSE nextUID
                    /\ children' = [children EXCEPT ![idx] =
                          [c EXCEPT !.uid = new.uid, !.rv = new.rv,
                                    !.type = new.type]]
                    /\ passError' = passError
                    /\ assertedUIDs' = AppendUID(assertedUIDs, new.uid)
               ELSE /\ UNCHANGED <<objects, nextUID, children>>
                    /\ passError' = ErrAppend(passError, StorageErr("Patch", k))
                    /\ assertedUIDs' = AppendUID(assertedUIDs, c.uid)
            /\ ApplyGoto(state, assertedKinds, passError', idx + 1, Len(children))
    /\ UNCHANGED <<harness, patching, rollout, sites, parents, dryRun, dryResult, storedAnno, parentAnno, assertedKinds, fresh, op, desired,
                   state, marked, pending, pre, prev>>

\* List of one kind with the parent's label as selector: keys in name order
ListedFirstOnly(kind) ==
    SelectSeq(<<Key(kind, NameOrder[1])>>,
              LAMBDA k : objects[k] # NoObj /\ objects[k].label = ParentUID)
Listed(kind) ==
    SelectSeq([i \in 1..Len(NameOrder) |-> Key(kind, NameOrder[i])],
              LAMBDA k : objects[k] # NoObj /\ objects[k].label = ParentUID)
\* the items of a list the callback of EachListItem deletes
ToDeleteAll(items) == items
ToDelete(items) ==
    SelectSeq(items, LAMBDA k : ~hasUID(assertedUIDs, objects[k].uid))

\* prune: the List of the idx-th kind of state.DeployedKinds
pruneList ==
    /\ pc = "list"
    /\ LET gvk == state[idx]
           target == Key(gvk.kind, "*")
       IN \E res \in Outcomes :
            /\ log' = Append(log, Entry("List", target, res, ParentUID))
            /\ budget' = Spend(res)
            /\ IF res = "ok"
               THEN LET todo == ToDelete(Listed(gvk.kind))
                    IN /\ pending' = todo
                       /\ IF todo = <<>>
                          THEN PruneGoto(state, assertedKinds, passError, idx + 1)
                          ELSE pc' = "delete" /\ idx' = idx /\ ret' = ret
               ELSE /\ pending' = pending
                    /\ idx' = idx
                    /\ Return(StorageErr("List", target))
    /\ UNCHANGED <<harness, patching, rollout, sites, parents, dryRun, dryResult, storageVars, parentAnno, instanceVars, fresh, op, desired,
                   children, state, marked, passError, pre, prev>>

\* prune: the Delete of one listed item that is not asserted
pruneDelete ==
    /\ pc = "delete"
    /\ LET k == Head(pending)
       IN \E res \in Outcomes :
            /\ log' = Append(log, Entry("Delete", k, res, NoLabel))
            /\ budget' = Spend(res)
            /\ objects' = IF res = "ok" THEN [objects EXCEPT ![k] = NoObj]
                          ELSE objects
            /\ passError' = IF res = "ok" THEN passError
                            ELSE ErrAppend(passError, StorageErr("Delete", k))
            /\ pending' = Tail(pending)
            /\ IF Tail(pending) = <<>>
               THEN PruneGoto(state, assertedKinds, passError', idx + 1)
               ELSE pc' = "delete" /\ idx' = idx /\ ret' = ret
    /\ UNCHANGED <<harness, patching, rollout, sites, parents, dryRun, dryResult, storedAnno, nextUID, parentAnno, instanceVars, fresh, op,
                   desired, children, state, marked, pre, prev>>

\* prune: remove old types from state, and persist the parent
pruneShrink ==
    /\ pc = "shrink"
    /\ state' = assertedKinds
    /\ parentAnno' = SetCompositeState(parentAnno, assertedKinds)
    /\ \E res \in Outcomes :
         /\ log' = Append(log, Entry("Update", ParentKey, res, NoLabel))
         /\ budget' = Spend(res)
         /\ IF res = "ok"
            THEN storedAnno' = parentAnno' /\ Return(NilErr)
            ELSE storedAnno' = storedAnno /\ Return(StorageErr("Update", ParentKey))
    /\ UNCHANGED <<harness, patching, rollout, sites, parents, dryRun, dryResult, objects, nextUID, instanceVars, fresh, op, desired, children,
                   marked, passError, idx, pending, pre, prev>>

\* another actor writes fields of a stored child (a plain Update of its own)
ExternalWrite ==
    /\ pc = "idle"
    /\ budget.externals < MaxExternal
    /\ \E k \in Keys, fields \in (SUBSET {"type", "port"}) \ {{}} :
         /\ objects[k] # NoObj
         /\ objects' = [objects EXCEPT ![k] =
               [@ EXCEPT !.type = IF "type" \in fields THEN ExternalType ELSE @,
                         !.port = IF "port" \in fields THEN ExternalPort ELSE @,
                         !.portMgr = IF "port" \in fields THEN OtherManager ELSE @,
                         !.rv = @ + 1]]
    /\ budget' = [budget EXCEPT !.externals = @ + 1]
    /\ prev' = [prev EXCEPT !.external = TRUE]
    /\ UNCHANGED <<harness, patching, rollout, sites, parents, dryRun, dryResult, storedAnno, nextUID, parentAnno, instanceVars, fresh, pc, op,
                   desired, children, state, marked, passError, idx, pending,
                   ret, log, pre>>

Next ==
    \/ New
    \/ RefetchParent
    \/ Reconcile
    \/ ReconcileWithoutPrune
    \/ Prune
    \/ Finish
    \/ markDesiredKinds
    \/ assertChildren
    \/ pruneList
    \/ pruneDelete
    \/ pruneShrink

\* the Reconciler and its caller over a storage whose calls may fail
Spec == Init /\ [][Next]_vars

NextExternal ==
    \/ New
    \/ Reconcile
    \/ ReconcileWithoutPrune
    \/ Prune
    \/ Finish
    \/ markDesiredKinds
    \/ assertChildren
    \/ pruneList
    \/ pruneDelete
    \/ pruneShrink
    \/ ExternalWrite

\* the Reconciler and its caller beside an external actor that writes to the
\* stored children, over a storage whose calls succeed
SpecExternal == InitReliable /\ [][NextExternal]_vars

\* Reconcile and ReconcileWithoutPrune with children that cannot be handled
ReconcileFaulty == \E cs \in FaultyLists : Begin("Reconcile", cs)
ReconcileWithoutPruneFaulty ==
    \E cs \in FaultyLists : Begin("ReconcileWithoutPrune", cs)

\* somebody else writes the annotations of the persisted parent
ExternalAnnotate ==
    /\ pc = "idle"
    /\ budget.externals < MaxExternal
    /\ \E a \in ForeignAnnotations : storedAnno' = a
    /\ budget' = [budget EXCEPT !.externals = @ + 1]
    /\ prev' = [prev EXCEPT !.external = TRUE]
    /\ UNCHANGED <<harness, patching, rollout, sites, parents, dryRun, dryResult, objects, nextUID, parentAnno, instanceVars, fresh, pc, op,
                   desired, children, state, marked, passError, idx, pending,
                   ret, log, pre>>

\* a child the caller still holds from an earlier call: Patch has written
\* the stored object into it, the UID storage gave it included
HeldChild(child, n) ==
    [LabelledChild(child) EXCEPT !.uid = UID(KeyOf(child), n), !.rv = 1]
\* the children handed over: new ones, and held ones with a UID that storage
\* has assigned under their key
HeldPool ==
    LET pool == { NewChild("Service", "v1", "a", NoLabel),
                  NewChild("ConfigMap", "v1", "a", NoLabel) }
    IN pool \cup {HeldChild(c, n) : c \in pool, n \in 0..(MaxCalls - 1)}
Assigned(c) == c.uid = NoUID \/ c.uid.n < nextUID[KeyOf(c)]
HeldLists ==
    LET held == {c \in HeldPool : Assigned(c)}
    IN {<<>>} \cup {<<c>> : c \in held}
          \cup {cd \in held \X held : KeyOf(cd[1]) # KeyOf(cd[2])}
ReconcileHeld == \E cs \in HeldLists : Begin("Reconcile", cs)
ReconcileWithoutPruneHeld ==
    \E cs \in HeldLists : Begin("ReconcileWithoutPrune", cs)

NextHeld ==
    \/ New
    \/ ReconcileHeld
    \/ ReconcileWithoutPruneHeld
    \/ Prune
    \/ Finish
    \/ markDesiredKinds
    \/ assertChildren
    \/ pruneList
    \/ pruneDelete
    \/ pruneShrink

\* the Reconciler and a caller that hands over children it holds from
\* earlier calls, over a storage whose calls may fail
SpecHeld == Init /\ [][NextHeld]_vars

\* a child handed over without a namespace (a cluster-scoped one)
ClusterChild(kind, version, name) ==
    [NewChild(kind, version, name, NoLabel) EXCEPT !.namespace = ""]
\* desired lists of children with and without a namespace, some of which
\* cannot have the parent as their controller
ScopedLists ==
    LET pool == { NewChild("Service", "v1", "a", NoLabel),
                  FaultyChild(NewChild("Service", "v2", "b", NoLabel), "owner"),
                  ClusterChild("ConfigMap", "v1", "a"),
                  FaultyChild(ClusterChild("ConfigMap", "v1", "b"), "owner") }
    IN {<<>>} \cup {<<c>> : c \in pool}
          \cup {cd \in pool \X pool : cd[1] # cd[2]}
ReconcileScoped == \E cs \in ScopedLists : Begin("Reconcile", cs)
ReconcileWithoutPruneScoped ==
    \E cs \in ScopedLists : Begin("ReconcileWithoutPrune", cs)

NextScopes ==
    \/ New
    \/ RefetchParent
    \/ ReconcileScoped
    \/ ReconcileWithoutPruneScoped
    \/ Prune
    \/ Finish
    \/ markDesiredKinds
    \/ assertChildren
    \/ pruneList
    \/ pruneDelete
    \/ pruneShrink

\* the Reconciler with children with and without a namespace, over a storage
\* whose calls may fail
SpecScopes == Init /\ [][NextScopes]_vars

NextFaults ==
    \/ New
    \/ RefetchParent
    \/ ReconcileFaulty
    \/ ReconcileWithoutPruneFaulty
    \/ Prune
    \/ Finish
    \/ markDesiredKinds
    \/ assertChildren
    \/ pruneList
    \/ pruneDelete
    \/ pruneShrink
    \/ ExternalAnnotate

\* the Reconciler and its caller with children that cannot be handled and
\* a parent whose annotations somebody else writes, over a storage whose
\* calls may fail
SpecFaults == Init /\ [][NextFaults]_vars

(* --------------- the Reconciler with a dryRun argument ---------------- *)
\* The version of the package whose Reconciler keeps nothing between calls
\* and whose operations take the parent, the children and dryRun: the wanted
\* UIDs and kinds (desiredUIDs, desiredKinds; here assertedUIDs and
\* assertedKinds) are locals of the call.

\* the options of the storage calls: client.DryRunAll when dryRun
patchOptions(d) == applyOptions @@ [dryRunAll |-> d]
deleteOptionsNoDryRun(d) == [dryRunAll |-> FALSE]
deleteOptions(d) == [dryRunAll |-> d]

\* the UID in the answer to a dry-run Patch that would create the object:
\* nothing is stored, so the answer has no UID or one made up for the answer,
\* which storage hands to no object
DryRunUIDs(key) == {NoUID, UID(key, -1)}

\* the name a storage call is logged under
CallName(call, opts) ==
    IF ~opts.dryRunAll THEN call
    ELSE IF call = "Patch" THEN "Patch(DryRunAll)" ELSE "Delete(DryRunAll)"

\* the targets of the Delete calls in a log, in order
RECURSIVE Deleted(_)
Deleted(l) ==
    IF l = <<>> THEN <<>>
    ELSE IF Head(l).call \in {"Delete", "Delete(DryRunAll)"}
         THEN <<Head(l).target>> \o Deleted(Tail(l))
         ELSE Deleted(Tail(l))

\* prune goes on with the k-th kind of st; past the last one it returns the
\* aggregated error, or shrinks the kind list unless dryRun, or is done
PruneGotoWithDryRun(st, wanted, perr, k, d) ==
    /\ idx' = k
    /\ IF k <= Len(st) THEN pc' = "list" /\ ret' = ret
       ELSE IF perr # NilErr THEN Return(perr)
       ELSE IF ShrinkNeeded(st, wanted) /\ ~d THEN pc' = "shrink" /\ ret' = ret
       ELSE Return(NilErr)

\* assertChildren goes on with the i-th of n children; past the last one
\* Reconcile returns its error or prunes
ApplyGotoWithDryRun(st, wanted, perr, i, n, d) ==
    IF i <= n THEN pc' = "apply" /\ idx' = i /\ ret' = ret
    ELSE IF perr # NilErr THEN Return(perr) /\ idx' = i
    ELSE PruneGotoWithDryRun(st, wanted, NilErr, 1, d)

\* Reconcile(ctx, owner, parent, children, dryRun): GetCompositeState
ReconcileWithDryRun ==
    \E cs \in DesiredLists, d \in BOOLEAN :
        /\ pc = "idle"
        /\ budget.calls < MaxCalls
        /\ budget' = [budget EXCEPT !.calls = @ + 1]
        /\ pre' = [objects |-> objects, storedAnno |-> storedAnno,
                   parentAnno |-> parentAnno, fresh |-> fresh,
                   again |-> prev.here]
        /\ op' = "Reconcile"
        /\ dryRun' = d
        /\ desired' = cs
        /\ children' = cs
        /\ state' = GetCompositeState(parentAnno)
        /\ assertedUIDs' = <<>>
        /\ assertedKinds' = <<>>
        /\ marked' = <<>>
        /\ passError' = NilErr
        /\ pending' = <<>>
        /\ log' = <<>>
        /\ idx' = 1
        /\ IF GetCompositeStateErr(parentAnno) # NilErr
           THEN Return(permanentError(GetCompositeStateErr(parentAnno)))
           ELSE pc' = "mark" /\ ret' = ret
        /\ UNCHANGED <<harness, patching, rollout, sites, parents, dryResult, storageVars, parentAnno, fresh, prev>>

\* markDesiredKinds(ctx, parent, children, state, dryRun)
markDesiredKindsWithDryRun ==
    /\ pc = "mark"
    /\ LET desiredKinds == MarkKinds(<<>>, children)
           ek == EnsureKinds(state, desiredKinds)
       IN /\ children' = [i \in 1..Len(children) |-> LabelledChild(children[i])]
          /\ assertedKinds' = desiredKinds
          /\ state' = ek.kinds
          /\ marked' = ek.kinds
          /\ IF ek.changed /\ ~dryRun
             THEN \E res \in Outcomes :
                    /\ parentAnno' = SetCompositeState(parentAnno, ek.kinds)
                    /\ log' = Append(log, Entry("Update", ParentKey, res, NoLabel))
                    /\ budget' = Spend(res)
                    /\ IF res = "ok"
                       THEN /\ storedAnno' = parentAnno'
                            /\ ApplyGotoWithDryRun(ek.kinds, desiredKinds, NilErr,
                                                   1, Len(children), dryRun)
                       ELSE /\ storedAnno' = storedAnno
                            /\ Return(StorageErr("Update", ParentKey))
                            /\ idx' = idx
             ELSE /\ UNCHANGED <<parentAnno, storedAnno, log, budget>>
                  /\ ApplyGotoWithDryRun(ek.kinds, desiredKinds, NilErr,
                                         1, Len(children), dryRun)
    /\ UNCHANGED <<harness, patching, rollout, sites, parents, dryRun, dryResult, objects, nextUID, assertedUIDs,
                   fresh, op, desired, passError, pending, pre, prev>>

\* one iteration of the loop of assertChildren(ctx, owner, children, dryRun):
\* Patch of the child, or of a copy of it when dryRun, then record the UID
assertChildrenWithDryRun ==
    /\ pc = "apply"
    /\ LET c == children[idx]
           k == KeyOf(c)
           obj == objects[k]
           opts == patchOptions(dryRun)
           new == Written(obj, c, opts, UID(k, nextUID[k]))
       IN \E res \in Outcomes :
            /\ log' = Append(log, Entry(CallName("Patch", opts), k, res, c.label))
            /\ budget' = Spend(res)
            /\ IF res = "ok" /\ ~opts.dryRunAll
               THEN /\ objects' = [objects EXCEPT ![k] = new]
                    /\ nextUID' = IF obj = NoObj
                                  THEN [nextUID EXCEPT ![k] = @ + 1]
                                  ELSE nextUID
                    /\ children' = [children EXCEPT ![idx] =
                          [c EXCEPT !.uid = new.uid, !.rv = new.rv,
                                    !.type = new.type]]
                    /\ passError' = passError
                    /\ assertedUIDs' = Append(assertedUIDs, new.uid)
               ELSE IF res = "ok"
               THEN /\ UNCHANGED <<objects, nextUID, children, passError>>
                    /\ \E uid \in (IF obj = NoObj THEN DryRunUIDs(k) ELSE {obj.uid}) :
                          assertedUIDs' = Append(assertedUIDs, uid)
               ELSE /\ UNCHANGED <<objects, nextUID, children>>
                    /\ passError' = ErrAppend(passError, StorageErr("Patch", k))
                    /\ assertedUIDs' = Append(assertedUIDs, c.uid)
            /\ ApplyGotoWithDryRun(state, assertedKinds, passError', idx + 1,
                                   Len(children), dryRun)
    /\ UNCHANGED <<harness, patching, rollout, sites, parents, dryRun, dryResult, storedAnno, parentAnno,
                   assertedKinds, fresh, op, desired, state, marked, pending,
                   pre, prev>>

\* prune(ctx, parent, state, desiredUIDs, desiredKinds, dryRun): the List of
\* the idx-th kind of state.DeployedKinds
pruneListWithDryRun ==
    /\ pc = "list"
    /\ LET gvk == state[idx]
           target == Key(gvk.kind, "*")
       IN \E res \in Outcomes :
            /\ log' = Append(log, Entry("List", target, res, ParentUID))
            /\ budget' = Spend(res)
            /\ IF res = "ok"
               THEN LET todo == ToDelete(Listed(gvk.kind))
                    IN /\ pending' = todo
                       /\ IF todo = <<>>
                          THEN PruneGotoWithDryRun(state, assertedKinds, passError,
                                                   idx + 1, dryRun)
                          ELSE pc' = "delete" /\ idx' = idx /\ ret' = ret
               ELSE /\ pending' = pending
                    /\ idx' = idx
                    /\ Return(StorageErr("List", target))
    /\ UNCHANGED <<harness, patching, rollout, sites, parents, dryRun, dryResult, storageVars, parentAnno,
                   instanceVars, fresh, op, desired, children, state, marked,
                   passError, pre, prev>>

\* prune: the Delete of one listed item whose UID is not wanted
pruneDeleteWithDryRun ==
    /\ pc = "delete"
    /\ LET k == Head(pending)
           opts == deleteOptions(dryRun)
       IN \E res \in Outcomes :
            /\ log' = Append(log, Entry(CallName("Delete", opts), k, res, NoLabel))
            /\ budget' = Spend(res)
            /\ objects' = IF res = "ok" /\ ~opts.dryRunAll
                          THEN [objects EXCEPT ![k] = NoObj]
                          ELSE objects
            /\ passError' = IF res = "ok" THEN passError
                            ELSE ErrAppend(passError, StorageErr("Delete", k))
            /\ pending' = Tail(pending)
            /\ IF Tail(pending) = <<>>
               THEN PruneGotoWithDryRun(state, assertedKinds, passError',
                                        idx + 1, dryRun)
               ELSE pc' = "delete" /\ idx' = idx /\ ret' = ret
    /\ UNCHANGED <<harness, patching, rollout, sites, parents, dryRun, dryResult, storedAnno, nextUID, parentAnno,
                   instanceVars, fresh, op, desired, children, state, marked,
                   pre, prev>>

\* prune: remove old types from state, and persist the parent (never dryRun)
pruneShrinkWithDryRun ==
    /\ pc = "shrink"
    /\ state' = assertedKinds
    /\ parentAnno' = SetCompositeState(parentAnno, assertedKinds)
    /\ \E res \in Outcomes :
         /\ log' = Append(log, Entry("Update", ParentKey, res, NoLabel))
         /\ budget' = Spend(res)
         /\ IF res = "ok"
            THEN storedAnno' = parentAnno' /\ Return(NilErr)
            ELSE storedAnno' = storedAnno /\ Return(StorageErr("Update", ParentKey))
    /\ UNCHANGED <<harness, patching, rollout, sites, parents, dryRun, dryResult, objects, nextUID, instanceVars,
                   fresh, op, desired, children, marked, passError, idx,
                   pending, pre, prev>>

\* the call has returned: the caller keeps what a dry-run call reported,
\* until its next call has returned
FinishWithDryRun ==
    /\ pc = "done"
    /\ pc' = "idle"
    /\ dryResult' = IF dryRun /\ ret = NilErr
                    THEN [valid |-> TRUE, desired |-> desired,
                          keep |-> assertedUIDs, deleted |-> Deleted(log),
                          pre |-> pre]
                    ELSE NoDryResult
    /\ dryRun' = FALSE
    /\ prev' = [op |-> op, desired |-> desired, ok |-> (ret = NilErr),
                here |-> TRUE,
                emptyBefore |-> /\ GetCompositeState(pre.parentAnno) = <<>>
                                /\ GetCompositeState(pre.storedAnno) = <<>>,
                external |-> FALSE]
    /\ op' = "none"
    /\ desired' = <<>>
    /\ children' = <<>>
    /\ state' = <<>>
    /\ marked' = <<>>
    /\ passError' = NilErr
    /\ idx' = 1
    /\ pending' = <<>>
    /\ ret' = NoRet
    /\ log' = <<>>
    /\ pre' = NoPre
    /\ assertedUIDs' = <<>>
    /\ assertedKinds' = <<>>
    /\ UNCHANGED <<harness, patching, rollout, sites, parents, storageVars, parentAnno, fresh, budget>>

NextDryRun ==
    \/ RefetchParent
    \/ ReconcileWithDryRun
    \/ FinishWithDryRun
    \/ markDesiredKindsWithDryRun
    \/ assertChildrenWithDryRun
    \/ pruneListWithDryRun
    \/ pruneDeleteWithDryRun
    \/ pruneShrinkWithDryRun

\* Reconcile with and without dryRun over a storage whose calls may fail
SpecDryRun == Init /\ [][NextDryRun]_vars

(* ------------------------ two parents at once ------------------------- *)
\* Two parents in one storage, each reconciled by its own Reconciler while
\* the other runs: the storage calls of the two interleave in any order.

\* the desired children of each parent: the same kinds under other names
ChildPoolOf(p) ==
    LET name == IF p = ParentUID THEN "a" ELSE "b"
    IN { NewChild("Service", "v1", name, NoLabel),
         NewChild("ConfigMap", "v1", name, NoLabel) }
DesiredListsOf(p) ==
    {<<>>} \cup {<<c>> : c \in ChildPoolOf(p)}
           \cup {<<c, d>> : <<c, d>> \in
                     {cd \in ChildPoolOf(p) \X ChildPoolOf(p) : cd[1] # cd[2]}}

\* everything of the model of a single parent
singleVars ==
    <<storedAnno, parentAnno, assertedUIDs, assertedKinds, fresh, pc, op,
      desired, children, state, marked, passError, idx, pending, ret, log,
      pre, prev, harness, dryRun, dryResult, sites, patching, rollout>>

\* markDesiredKinds: associate the child with the parent p
LabelledChildOf(p, child) ==
    [child EXCEPT !.label = p, !.owner = (child.namespace # "")]

\* List of one kind with the label of parent p as selector
ListedOfAnyParent(p, kind) ==
    SelectSeq([i \in 1..Len(NameOrder) |-> Key(kind, NameOrder[i])],
              LAMBDA k : objects[k] # NoObj)
ListedOf(p, kind) ==
    SelectSeq([i \in 1..Len(NameOrder) |-> Key(kind, NameOrder[i])],
              LAMBDA k : objects[k] # NoObj /\ objects[k].label = p)

\* where prune goes on: the k-th kind of st, or past the last one the
\* aggregated error, the shrink of the kind list, or the return
PruneStep(st, asserted, perr, k) ==
    IF k <= Len(st) THEN [pc |-> "list", idx |-> k, ret |-> NoRet]
    ELSE IF perr # NilErr THEN [pc |-> "done", idx |-> k, ret |-> perr]
    ELSE IF ShrinkNeeded(st, asserted)
    THEN [pc |-> "shrink", idx |-> k, ret |-> NoRet]
    ELSE [pc |-> "done", idx |-> k, ret |-> NilErr]
\* where Reconcile goes on after the i-th of n children
ApplyStep(st, asserted, perr, i, n) ==
    IF i <= n THEN [pc |-> "apply", idx |-> i, ret |-> NoRet]
    ELSE IF perr # NilErr THEN [pc |-> "done", idx |-> i, ret |-> perr]
    ELSE PruneStep(st, asserted, NilErr, 1)
Goto(r, step) == [r EXCEPT !.pc = step.pc, !.idx = step.idx, !.ret = step.ret]

\* entry of Reconcile on the Reconciler of one parent: GetCompositeState
ReconcileOfParent ==
    \E p \in Parents :
      \E cs \in DesiredListsOf(p) :
        LET r == parents[p] IN
        /\ r.pc = "idle"
        /\ budget.calls < MaxCalls
        /\ budget' = [budget EXCEPT !.calls = @ + 1]
        /\ parents' = [parents EXCEPT ![p] =
              LET begun == [r EXCEPT !.desired = cs, !.children = cs,
                                     !.state = GetCompositeState(r.anno),
                                     !.passError = NilErr, !.pending = <<>>,
                                     !.pre = objects,
                                     !.fresh = FALSE, !.onNew = r.fresh]
              IN IF GetCompositeStateErr(r.anno) # NilErr
                 THEN [begun EXCEPT !.pc = "done", !.idx = 1,
                          !.ret = permanentError(GetCompositeStateErr(r.anno))]
                 ELSE [begun EXCEPT !.pc = "mark", !.idx = 1, !.ret = NoRet]]
        /\ UNCHANGED <<objects, nextUID, singleVars>>

\* markDesiredKinds on the Reconciler of one parent
markDesiredKindsOfParent ==
    \E p \in Parents :
        LET r == parents[p]
            asserted == MarkKinds(r.assertedKinds, r.children)
            ek == EnsureKinds(r.state, asserted)
            marked1 == [r EXCEPT
                !.children = [i \in 1..Len(r.children) |->
                                 LabelledChildOf(p, r.children[i])],
                !.assertedKinds = asserted,
                !.state = ek.kinds]
            next == ApplyStep(ek.kinds, asserted, NilErr, 1, Len(r.children))
        IN /\ r.pc = "mark"
           /\ IF ek.changed
              THEN \E res \in Outcomes :
                     LET set == [marked1 EXCEPT
                                   !.anno = SetCompositeState(r.anno, ek.kinds)]
                     IN /\ budget' = Spend(res)
                        /\ parents' = [parents EXCEPT ![p] =
                              IF res = "ok"
                              THEN Goto([set EXCEPT !.stored = set.anno], next)
                              ELSE [set EXCEPT !.pc = "done",
                                       !.ret = StorageErr("Update", ParentKey)]]
              ELSE /\ budget' = budget
                   /\ parents' = [parents EXCEPT ![p] = Goto(marked1, next)]
           /\ UNCHANGED <<objects, nextUID, singleVars>>

\* one iteration of the loop of assertChildren on the Reconciler of one parent
assertChildrenOfParent ==
    \E p \in Parents :
        LET r == parents[p] IN
        /\ r.pc = "apply"
        /\ LET c == r.children[r.idx]
               k == KeyOf(c)
               obj == objects[k]
               new == Written(obj, c, applyOptions, UID(k, nextUID[k]))
           IN \E res \in (IF Conflicts(obj, c, applyOptions)
                          THEN {"conflict"} ELSE Outcomes) :
                LET perr == IF res = "ok" THEN r.passError
                            ELSE ErrAppend(r.passError, StorageErr("Patch", k))
                    uid == IF res = "ok" THEN new.uid ELSE c.uid
                    patched == [r EXCEPT
                        !.children[r.idx] =
                            IF res = "ok"
                            THEN [c EXCEPT !.uid = new.uid, !.rv = new.rv,
                                           !.type = new.type]
                            ELSE c,
                        !.passError = perr,
                        !.assertedUIDs = Append(r.assertedUIDs, uid)]
                IN /\ budget' = Spend(IF res = "io" THEN "io" ELSE "ok")
                   /\ objects' = IF res = "ok" THEN [objects EXCEPT ![k] = new]
                                 ELSE objects
                   /\ nextUID' = IF res = "ok" /\ obj = NoObj
                                 THEN [nextUID EXCEPT ![k] = @ + 1]
                                 ELSE nextUID
                   /\ parents' = [parents EXCEPT ![p] =
                         Goto(patched, ApplyStep(r.state, r.assertedKinds, perr,
                                                 r.idx + 1, Len(r.children)))]
        /\ UNCHANGED singleVars

\* prune on the Reconciler of one parent: the List of the idx-th kind
pruneListOfParent ==
    \E p \in Parents :
        LET r == parents[p] IN
        /\ r.pc = "list"
        /\ LET gvk == r.state[r.idx]
               todo == SelectSeq(ListedOf(p, gvk.kind),
                          LAMBDA k : ~hasUID(r.assertedUIDs, objects[k].uid))
           IN \E res \in Outcomes :
                /\ budget' = Spend(res)
                /\ parents' = [parents EXCEPT ![p] =
                      IF res # "ok"
                      THEN [r EXCEPT !.pc = "done",
                              !.ret = StorageErr("List", Key(gvk.kind, "*"))]
                      ELSE IF todo = <<>>
                      THEN Goto(r, PruneStep(r.state, r.assertedKinds,
                                             r.passError, r.idx + 1))
                      ELSE [r EXCEPT !.pc = "delete", !.pending = todo]]
        /\ UNCHANGED <<objects, nextUID, singleVars>>

\* prune on the Reconciler of one parent: the Delete of one listed item
pruneDeleteOfParent ==
    \E p \in Parents :
        LET r == parents[p] IN
        /\ r.pc = "delete"
        /\ LET k == Head(r.pending)
           IN \E res \in Outcomes :
                LET perr == IF res = "ok" THEN r.passError
                            ELSE ErrAppend(r.passError, StorageErr("Delete", k))
                    deleted == [r EXCEPT !.passError = perr,
                                         !.pending = Tail(r.pending)]
                IN /\ budget' = Spend(res)
                   /\ objects' = IF res = "ok" THEN [objects EXCEPT ![k] = NoObj]
                                 ELSE objects
                   /\ parents' = [parents EXCEPT ![p] =
                         IF Tail(r.pending) = <<>>
                         THEN Goto(deleted, PruneStep(r.state, r.assertedKinds,
                                                      perr, r.idx + 1))
                         ELSE deleted]
        /\ UNCHANGED <<nextUID, singleVars>>

\* prune on the Reconciler of one parent: remove old types, persist the parent
pruneShrinkOfParent ==
    \E p \in Parents :
        LET r == parents[p]
            set == [r EXCEPT !.state = r.assertedKinds,
                      !.anno = SetCompositeState(r.anno, r.assertedKinds)]
        IN /\ r.pc = "shrink"
           /\ \E res \in Outcomes :
                /\ budget' = Spend(res)
                /\ parents' = [parents EXCEPT ![p] =
                      IF res = "ok"
                      THEN [set EXCEPT !.stored = set.anno, !.pc = "done",
                                       !.ret = NilErr]
                      ELSE [set EXCEPT !.pc = "done",
                                       !.ret = StorageErr("Update", ParentKey)]]
           /\ UNCHANGED <<objects, nextUID, singleVars>>

\* the call on the Reconciler of one parent has returned
FinishOfParent ==
    \E p \in Parents :
        LET r == parents[p] IN
        /\ r.pc = "done"
        /\ parents' = [parents EXCEPT ![p] =
              [NoReconciler EXCEPT !.anno = r.anno, !.stored = r.stored,
                                   !.assertedUIDs = r.assertedUIDs,
                                   !.assertedKinds = r.assertedKinds,
                                   !.fresh = FALSE]]
        /\ UNCHANGED <<objects, nextUID, budget, singleVars>>

\* New: a Reconciler for one of the parents, with nothing asserted yet
NewOfParent ==
    \E p \in Parents :
        LET r == parents[p] IN
        /\ r.pc = "idle"
        /\ ~r.fresh
        /\ parents' = [parents EXCEPT ![p] =
              [r EXCEPT !.assertedUIDs = <<>>, !.assertedKinds = <<>>,
                        !.fresh = TRUE]]
        /\ UNCHANGED <<objects, nextUID, budget, singleVars>>

NextTwoParents ==
    \/ NewOfParent
    \/ ReconcileOfParent
    \/ markDesiredKindsOfParent
    \/ assertChildrenOfParent
    \/ pruneListOfParent
    \/ pruneDeleteOfParent
    \/ pruneShrinkOfParent
    \/ FinishOfParent

\* the Reconcilers of two parents running at once over a storage whose calls
\* may fail
SpecTwoParents == Init /\ [][NextTwoParents]_vars

(* ------------------- one parent from two call sites ------------------- *)
\* Two call sites reconcile the same parent at once. Each reads the parent
\* from storage, makes a Reconciler for it with New and calls Reconcile; the
\* storage calls of the two interleave in any order.

\* the desired children the call sites pass
SitePool ==
    { NewChild("Service", "v1", "a", NoLabel),
      NewChild("Service", "v1", "b", NoLabel),
      NewChild("ConfigMap", "v1", "a", NoLabel) }
SiteLists ==
    {<<>>} \cup {<<c>> : c \in SitePool}
           \cup {<<cd[1], cd[2]>> : cd \in {x \in SitePool \X SitePool : x[1] # x[2]}}

\* everything of the other models
siteFrame ==
    <<parentAnno, assertedUIDs, assertedKinds, fresh, pc, op, desired,
      children, state, marked, passError, idx, pending, ret, log, pre, prev,
      harness, dryRun, dryResult, parents, patching, rollout>>

\* a call site makes one call at a time; nothing makes it wait for the other
CanCallExclusively(s) == \A t \in Sites : sites.of[t].pc = "idle"
CanCall(s) == sites.of[s].pc = "idle"

\* client.Update of the parent a site holds: storage refuses it when the
\* parent has been written since the site read it
UpdateResult(r) == IF r.rv = sites.parentRV THEN "ok" ELSE "conflict"

\* the site reads the parent, makes a Reconciler and enters Reconcile
ReconcileAtSite ==
    \E s \in Sites :
      \E cs \in SiteLists :
        LET state0 == GetCompositeState(storedAnno)
            running == {t \in Sites \ {s} : sites.of[t].pc # "idle"}
            begun == [NoSite EXCEPT !.anno = storedAnno, !.rv = sites.parentRV,
                                    !.desired = cs, !.children = cs,
                                    !.state = state0,
                                    !.overlapped = (running # {}),
                                    !.covered =
                                       \A k \in Keys :
                                          (objects[k] # NoObj
                                              /\ objects[k].label = ParentUID)
                                          => kindIndex(state0, GVK(k.kind, "v1")) > 0]
        IN /\ CanCall(s)
           /\ budget.calls < MaxCalls
           /\ budget' = [budget EXCEPT !.calls = @ + 1]
           /\ sites' = [sites EXCEPT !.of =
                 [t \in Sites |->
                    IF t = s
                    THEN IF GetCompositeStateErr(storedAnno) # NilErr
                         THEN [begun EXCEPT !.pc = "done", !.ret =
                                 permanentError(GetCompositeStateErr(storedAnno))]
                         ELSE [begun EXCEPT !.pc = "mark"]
                    ELSE IF t \in running
                    THEN [sites.of[t] EXCEPT !.overlapped = TRUE]
                    ELSE sites.of[t]]]
           /\ UNCHANGED <<objects, nextUID, storedAnno, siteFrame>>

\* markDesiredKinds at one site
markDesiredKindsAtSite ==
    \E s \in Sites :
        LET r == sites.of[s]
            asserted == MarkKinds(r.assertedKinds, r.children)
            ek == EnsureKinds(r.state, asserted)
            marked1 == [r EXCEPT
                !.children = [i \in 1..Len(r.children) |->
                                 LabelledChild(r.children[i])],
                !.assertedKinds = asserted,
                !.state = ek.kinds]
            next == ApplyStep(ek.kinds, asserted, NilErr, 1, Len(r.children))
            set == [marked1 EXCEPT !.anno = SetCompositeState(r.anno, ek.kinds)]
        IN /\ r.pc = "mark"
           /\ IF ek.changed /\ UpdateResult(r) = "ok"
              THEN /\ storedAnno' = set.anno
                   /\ sites' = [sites EXCEPT !.parentRV = @ + 1,
                          !.of[s] = Goto([set EXCEPT !.rv = sites.parentRV + 1],
                                         next)]
              ELSE IF ek.changed
              THEN /\ storedAnno' = storedAnno
                   /\ sites' = [sites EXCEPT !.of[s] =
                          [set EXCEPT !.pc = "done",
                                      !.ret = StorageErr("Update", ParentKey)]]
              ELSE /\ storedAnno' = storedAnno
                   /\ sites' = [sites EXCEPT !.of[s] = Goto(marked1, next)]
           /\ UNCHANGED <<objects, nextUID, budget, siteFrame>>

\* one iteration of the loop of assertChildren at one site
assertChildrenAtSite ==
    \E s \in Sites :
        LET r == sites.of[s]
            c == r.children[r.idx]
            k == KeyOf(c)
            obj == objects[k]
            new == Written(obj, c, applyOptions, UID(k, nextUID[k]))
            patched == [r EXCEPT
                !.children[r.idx] = [c EXCEPT !.uid = new.uid, !.rv = new.rv,
                                              !.type = new.type],
                !.assertedUIDs = Append(r.assertedUIDs, new.uid),
                !.applied = @ \cup {k}]
        IN /\ r.pc = "apply"
           /\ objects' = [objects EXCEPT ![k] = new]
           /\ nextUID' = IF obj = NoObj THEN [nextUID EXCEPT ![k] = @ + 1]
                         ELSE nextUID
           /\ sites' = [sites EXCEPT !.of[s] =
                 Goto(patched, ApplyStep(r.state, r.assertedKinds, r.passError,
                                         r.idx + 1, Len(r.children)))]
           /\ UNCHANGED <<storedAnno, budget, siteFrame>>

\* prune at one site: the List of the idx-th kind
pruneListAtSite ==
    \E s \in Sites :
        LET r == sites.of[s]
            gvk == r.state[r.idx]
            todo == SelectSeq(Listed(gvk.kind),
                       LAMBDA k : ~hasUID(r.assertedUIDs, objects[k].uid))
        IN /\ r.pc = "list"
           /\ sites' = [sites EXCEPT !.of[s] =
                 IF todo = <<>>
                 THEN Goto(r, PruneStep(r.state, r.assertedKinds, r.passError,
                                        r.idx + 1))
                 ELSE [r EXCEPT !.pc = "delete", !.pending = todo]]
           /\ UNCHANGED <<objects, nextUID, storedAnno, budget, siteFrame>>

\* prune at one site: the Delete of one listed item; an item that is gone by
\* now gives a not-found error
pruneDeleteAtSite ==
    \E s \in Sites :
        LET r == sites.of[s]
            k == Head(r.pending)
            res == IF objects[k] = NoObj THEN "notfound" ELSE "ok"
            perr == IF res = "ok" THEN r.passError
                    ELSE ErrAppend(r.passError, StorageErr("Delete", k))
            deleted == [r EXCEPT !.passError = perr, !.pending = Tail(r.pending),
                                 !.deleted = IF res = "ok" THEN @ \cup {k} ELSE @]
        IN /\ r.pc = "delete"
           /\ objects' = [objects EXCEPT ![k] = NoObj]
           /\ sites' = [sites EXCEPT !.of[s] =
                 IF Tail(r.pending) = <<>>
                 THEN Goto(deleted, PruneStep(r.state, r.assertedKinds, perr,
                                              r.idx + 1))
                 ELSE deleted]
           /\ UNCHANGED <<nextUID, storedAnno, budget, siteFrame>>

\* prune at one site: remove old types from state, and persist the parent
pruneShrinkAtSite ==
    \E s \in Sites :
        LET r == sites.of[s]
            set == [r EXCEPT !.state = r.assertedKinds,
                      !.anno = SetCompositeState(r.anno, r.assertedKinds)]
        IN /\ r.pc = "shrink"
           /\ IF UpdateResult(r) = "ok"
              THEN /\ storedAnno' = set.anno
                   /\ sites' = [sites EXCEPT !.parentRV = @ + 1,
                          !.of[s] = [set EXCEPT !.rv = sites.parentRV + 1,
                                                !.pc = "done", !.ret = NilErr]]
              ELSE /\ storedAnno' = storedAnno
                   /\ sites' = [sites EXCEPT !.of[s] =
                          [set EXCEPT !.pc = "done",
                                      !.ret = StorageErr("Update", ParentKey)]]
           /\ UNCHANGED <<objects, nextUID, budget, siteFrame>>

\* the call at one site has returned: the site drops its Reconciler
FinishAtSite ==
    \E s \in Sites :
        /\ sites.of[s].pc = "done"
        /\ sites' = [sites EXCEPT !.of[s] = NoSite]
        /\ UNCHANGED <<objects, nextUID, storedAnno, budget, siteFrame>>

NextTwoSites ==
    \/ ReconcileAtSite
    \/ markDesiredKindsAtSite
    \/ assertChildrenAtSite
    \/ pruneListAtSite
    \/ pruneDeleteAtSite
    \/ pruneShrinkAtSite
    \/ FinishAtSite

\* two call sites reconciling one parent at once over a storage whose calls
\* succeed unless the parent or the child has been written or deleted meanwhile
SpecTwoSites == InitReliable /\ [][NextTwoSites]_vars

(* ---------------------- functions on their own ------------------------ *)
\* the kinds the functions are called with: two versions of a kind, another
\* kind, and the first kind in another group
GVKPool ==
    { GVK("Service", "v1"), GVK("Service", "v2"), GVK("ConfigMap", "v1"),
      [group |-> "apps", version |-> "v1", kind |-> "Service"] }
SeqsUpTo(S, n) == UNION {[1..m -> S] : m \in 0..n}
SameGroupKind(a, b) == a.group = b.group /\ a.kind = b.kind
\* a kind list as the code keeps it on the parent: unique by (group, kind)
Unique(kinds) ==
    \A i, j \in 1..Len(kinds) : SameGroupKind(kinds[i], kinds[j]) => i = j
HistoricalLists == {h \in SeqsUpTo(GVKPool, MaxHistorical) : Unique(h)}
\* the annotations SetCompositeState is called on
AnnotationInputs ==
    {NoAnnotation} \cup ForeignAnnotations
       \cup {Marshal(k) : k \in HistoricalLists}
       \cup {[Marshal(k) EXCEPT !.other = "x"] : k \in HistoricalLists}

InitHarness ==
    /\ InitFrame
    /\ budget = [calls |-> 0, failures |-> 0, externals |-> 0]
    /\ \/ \E h \in HistoricalLists, d \in SeqsUpTo(GVKPool, MaxKinds) :
             harness = [NoHarness EXCEPT !.fn = "EnsureKinds",
                                         !.historical = h, !.kinds = d]
       \/ \E a \in AnnotationInputs, k \in SeqsUpTo(GVKPool, MaxHistorical) :
             harness = [NoHarness EXCEPT !.fn = "SetCompositeState",
                                         !.anno = a, !.kinds = k]

\* State.EnsureKinds called on a state, and once more on the result
CallEnsureKinds ==
    /\ harness.fn = "EnsureKinds" /\ ~harness.out.done
    /\ LET first == EnsureKinds(harness.historical, harness.kinds)
           second == EnsureKinds(first.kinds, harness.kinds)
       IN harness' = [harness EXCEPT !.out = [NoOut EXCEPT !.done = TRUE,
                                        !.first = first, !.second = second]]
    /\ UNCHANGED <<patching, rollout, parents, sites, dryRun, dryResult, objects, storedAnno, nextUID, parentAnno,
                   assertedUIDs, assertedKinds, fresh, pc, op, desired,
                   children, state, marked, passError, idx, pending, ret, log,
                   pre, prev, budget>>

\* SetCompositeState called on a parent, then GetCompositeState
CallSetCompositeState ==
    /\ harness.fn = "SetCompositeState" /\ ~harness.out.done
    /\ LET anno == SetCompositeState(harness.anno, harness.kinds)
       IN harness' = [harness EXCEPT !.out = [NoOut EXCEPT !.done = TRUE,
                         !.anno = anno,
                         !.state = GetCompositeState(anno),
                         !.err = GetCompositeStateErr(anno)]]
    /\ UNCHANGED <<patching, rollout, parents, sites, dryRun, dryResult, objects, storedAnno, nextUID, parentAnno,
                   assertedUIDs, assertedKinds, fresh, pc, op, desired,
                   children, state, marked, passError, idx, pending, ret, log,
                   pre, prev, budget>>

NextHarness ==
    \/ CallEnsureKinds
    \/ CallSetCompositeState

\* State.EnsureKinds and the state accessor, each called on its own
SpecHarness == InitHarness /\ [][NextHarness]_vars

(* ------------------------- the error functions ----------------------- *)
\* the results of operations: nil, a plain error, an error wrapped as
\* permanent, an error of a storage call, and one that is composite already
errTest == StepErr("errTest", "error message")
OperationResults ==
    { NilErr, errTest, permanentError(StepErr("GVKForObject", "child")),
      StorageErr("Patch", "child"),
      compositeError(<<errTest.causes[1], errTest.causes[1]>>) }

InitErrors ==
    /\ InitFrame
    /\ budget = [calls |-> 0, failures |-> 0, externals |-> 0]
    /\ \E rs \in SeqsUpTo(OperationResults, MaxResults) :
          harness = [NoHarness EXCEPT !.fn = "Append", !.results = rs]

\* Append folded over the results one at a time
RECURSIVE Fold(_, _)
Fold(existing, results) ==
    IF results = <<>> THEN existing
    ELSE Fold(ErrAppend(existing, Head(results)), Tail(results))

\* Append called with each result and nil, on either side; then folded over
\* the results one at a time, several at once, and in two groups
CallAppend ==
    /\ harness.fn = "Append" /\ ~harness.out.done
    /\ LET rs == harness.results
       IN harness' = [harness EXCEPT !.out =
             [NoOut EXCEPT
                !.done = TRUE,
                !.ontoNil = [i \in 1..Len(rs) |-> ErrAppend(NilErr, rs[i])],
                !.toNil = [i \in 1..Len(rs) |-> ErrAppend(rs[i], NilErr)],
                !.err = Fold(NilErr, rs),
                !.atOnce = AppendAll(NilErr, rs),
                !.grouped = {AppendAll(AppendAll(NilErr, SubSeq(rs, 1, n)),
                                       SubSeq(rs, n + 1, Len(rs)))
                                : n \in 0..Len(rs)}]]
    /\ UNCHANGED <<patching, rollout, parents, sites, dryRun, dryResult, objects, storedAnno,
                   nextUID, parentAnno, assertedUIDs, assertedKinds, fresh, pc,
                   op, desired, children, state, marked, passError, idx,
                   pending, ret, log, pre, prev, budget>>

NextErrors == CallAppend

\* Append called on its own
SpecErrors == InitErrors /\ [][NextErrors]_vars

(* ----------------- a rollout at once and in phases ------------------- *)
\* The caller rolls the same children out twice from the same beginning,
\* each time on a new Reconciler: with Reconcile, and with
\* ReconcileWithoutPrune followed by Prune on the one instance.

\* calls that came before the rollout
ReconcileBefore == rollout.phase = "before" /\ Reconcile
ReconcileWithoutPruneBefore == rollout.phase = "before" /\ ReconcileWithoutPrune

rolloutFrame ==
    <<harness, patching, sites, parents, dryRun, dryResult, op, desired,
      children, state, marked, passError, idx, pending, ret, log, pre>>

\* the rollout begins: the caller has a new Reconciler and the children
ChooseRollout ==
    /\ rollout.phase = "before"
    /\ pc = "idle" /\ fresh
    /\ budget.calls < MaxCalls - 1
    /\ \E cs \in DesiredLists :
          rollout' = [NoRollout EXCEPT
             !.phase = "atOnce", !.cs = cs,
             !.start = [objects |-> objects, storedAnno |-> storedAnno,
                        nextUID |-> nextUID, parentAnno |-> parentAnno,
                        budget |-> budget]]
    /\ UNCHANGED <<rolloutFrame, storageVars, parentAnno, instanceVars, fresh,
                   pc, prev, budget>>

\* Reconcile(children) on the new Reconciler
ReconcileAtOnce ==
    /\ rollout.phase = "atOnce" /\ fresh
    /\ Begin("Reconcile", rollout.cs)

\* the same beginning once more: storage and parent as they were, and a new
\* Reconciler
StartOver ==
    /\ rollout.phase = "atOnce"
    /\ pc = "idle" /\ ~fresh
    /\ rollout' = [rollout EXCEPT
          !.phase = "phased",
          !.atOnce = [objects |-> objects, storedAnno |-> storedAnno]]
    /\ objects' = rollout.start.objects
    /\ storedAnno' = rollout.start.storedAnno
    /\ nextUID' = rollout.start.nextUID
    /\ parentAnno' = rollout.start.parentAnno
    /\ budget' = rollout.start.budget
    /\ assertedUIDs' = <<>>
    /\ assertedKinds' = <<>>
    /\ fresh' = TRUE
    /\ prev' = NoCall
    /\ UNCHANGED <<rolloutFrame, pc>>

\* ReconcileWithoutPrune(children) on the new Reconciler
ReconcileWithoutPruneFirst ==
    /\ rollout.phase = "phased" /\ fresh
    /\ Begin("ReconcileWithoutPrune", rollout.cs)

\* the caller decides on a further ReconcileWithoutPrune before Prune
ChooseMore ==
    /\ rollout.phase = "phased"
    /\ pc = "idle" /\ ~fresh /\ prev.op = "ReconcileWithoutPrune"
    /\ ~rollout.further
    /\ budget.calls < MaxCalls - 1
    /\ \E cs \in DesiredLists :
          rollout' = [rollout EXCEPT !.more = cs, !.further = TRUE]
    /\ UNCHANGED <<rolloutFrame, storageVars, parentAnno, instanceVars, fresh,
                   pc, prev, budget>>

\* a further ReconcileWithoutPrune on the same Reconciler
ReconcileWithoutPruneMore ==
    /\ rollout.phase = "phased" /\ ~fresh
    /\ rollout.further /\ prev.desired = rollout.cs
    /\ prev.op = "ReconcileWithoutPrune"
    /\ Begin("ReconcileWithoutPrune", rollout.more)

\* Prune() on the same Reconciler ends the rollout
PruneAfterwards ==
    /\ rollout.phase = "phased" /\ ~fresh
    /\ prev.op = "ReconcileWithoutPrune"
    /\ prev.desired = (IF rollout.further THEN rollout.more ELSE rollout.cs)
    /\ Prune

NextRollout ==
    \/ New
    \/ ReconcileBefore
    \/ ReconcileWithoutPruneBefore
    \/ ChooseRollout
    \/ ReconcileAtOnce
    \/ StartOver
    \/ ReconcileWithoutPruneFirst
    \/ ChooseMore
    \/ ReconcileWithoutPruneMore
    \/ PruneAfterwards
    \/ Finish
    \/ markDesiredKinds
    \/ assertChildren
    \/ pruneList
    \/ pruneDelete
    \/ pruneShrink

\* a rollout at once and in phases over a storage whose calls succeed
SpecRollout == InitReliable /\ [][NextRollout]_vars

(* ---------------------- the life of an instance ---------------------- *)
\* The calls on one Reconciler, with what they have written noted until the
\* caller makes a new Reconciler.

\* the children the call at hand has stored
StoredByCall ==
    IF op \in {"Reconcile", "ReconcileWithoutPrune"}
    THEN {log[i].target : i \in {j \in 1..Len(log) :
                                   log[j].call = "Patch" /\ log[j].res = "ok"}}
    ELSE {}
\* their kinds, as far as the persisted kind list holds them
PersistedByCall ==
    {k.kind : k \in StoredByCall} \cap
    {g.kind : g \in {GetCompositeState(storedAnno)[i] :
                       i \in 1..Len(GetCompositeState(storedAnno))}}

NewInstance ==
    /\ NewReconciler
    /\ rollout' = [rollout EXCEPT !.applied = {}, !.kinds = {}]
FinishOnInstance ==
    /\ FinishCall
    /\ rollout' = [rollout EXCEPT !.applied = @ \cup StoredByCall,
                                  !.kinds = @ \cup PersistedByCall]

NextInstance ==
    \/ NewInstance
    \/ RefetchParent
    \/ Reconcile
    \/ ReconcileWithoutPrune
    \/ Prune
    \/ FinishOnInstance
    \/ markDesiredKinds
    \/ assertChildren
    \/ pruneList
    \/ pruneDelete
    \/ pruneShrink

\* the instances of a caller over a storage whose calls may fail
SpecInstance == Init /\ [][NextInstance]_vars

(* ----------------------- the labels of a child ----------------------- *)
\* The label map of a child: whether the map exists (map), the values under
\* two keys of the caller (app, version) and under ParentLabel (parent);
\* NoValue for a key that is not there.
NoLabels == [map |-> FALSE, app |-> NoValue, version |-> NoValue,
             parent |-> NoValue]
LabelMaps ==
    {NoLabels} \cup
    [map : {TRUE}, app : {NoValue, "backend"}, version : {NoValue, "v1"},
     parent : {NoValue, ParentUID, OtherUID}]

\* markDesiredKinds, "Associate with parent": GetLabels, a new map when there
\* is none, the parent's UID under ParentLabel, SetLabels
SetParentLabelInNewMap(labels, parentKey) ==
    [NoLabels EXCEPT !.map = TRUE, !.parent = parentKey]
SetParentLabel(labels, parentKey) ==
    LET got == IF labels.map THEN labels ELSE [NoLabels EXCEPT !.map = TRUE]
    IN [got EXCEPT !.parent = parentKey]

InitLabels ==
    /\ InitFrame
    /\ budget = [calls |-> 0, failures |-> 0, externals |-> 0]
    /\ \E ls \in SeqsUpTo(LabelMaps, MaxLabelled) :
          harness = [NoHarness EXCEPT !.fn = "markDesiredKinds", !.labels = ls]

\* the loop of markDesiredKinds over the label maps of the children
CallSetLabels ==
    /\ harness.fn = "markDesiredKinds" /\ ~harness.out.done
    /\ harness' = [harness EXCEPT !.out =
          [NoOut EXCEPT
             !.done = TRUE,
             !.labels = [i \in 1..Len(harness.labels) |->
                            SetParentLabel(harness.labels[i], ParentUID)]]]
    /\ UNCHANGED <<patching, rollout, parents, sites, dryRun, dryResult, objects, storedAnno,
                   nextUID, parentAnno, assertedUIDs, assertedKinds, fresh, pc,
                   op, desired, children, state, marked, passError, idx,
                   pending, ret, log, pre, prev, budget>>

NextLabels == CallSetLabels

\* markDesiredKinds on the label maps of the children
SpecLabels == InitLabels /\ [][NextLabels]_vars

(* -------------------------- the patch helpers ------------------------ *)
Fields == {"labels", "status"}
Services == [labels : {"", "best-deployment"}, status : {"", "1.2.3.4"}]
\* client.MergeFrom(original) and brokenPatcher{}
MergeFrom(original) == [type |-> "merge", from |-> original]
brokenPatcher == [type |-> "broken", from |-> makeTestService]
Patches == {MergeFrom(o) : o \in Services} \cup {brokenPatcher}

\* patch.Data(obj): the body of the patch, the fields of obj that differ from
\* the original with their new values; "{}" is the body with no field
EmptyBody == {}
Data(patch, obj) ==
    IF patch.type = "broken"
    THEN [body |-> EmptyBody,
          err |-> StepErr("Data", "why was I made to feel pain")]
    ELSE [body |-> {<<f, obj[f]>> : f \in {g \in Fields : obj[g] # patch.from[g]}},
          err |-> NilErr]

\* IsPatchRequired(newObj, patch)
IsPatchRequiredAlways(newObj, patch) ==
    LET p == Data(patch, newObj)
    IN IF p.err # NilErr THEN [required |-> FALSE, err |-> p.err]
       ELSE [required |-> TRUE, err |-> NilErr]
IsPatchRequired(newObj, patch) ==
    LET p == Data(patch, newObj)
    IN IF p.err # NilErr THEN [required |-> FALSE, err |-> p.err]
       ELSE [required |-> p.body # EmptyBody, err |-> NilErr]

\* fmt.Errorf("unable to build patch: %v", err)
UnableToBuildPatch(err) == StepErr("unable to build patch", err.causes[1].target)

\* what storage holds after a patch of the given fields is applied
Patched(stored, body, fields) ==
    [f \in Fields |->
        IF f \in fields /\ \E pair \in body : pair[1] = f
        THEN (CHOOSE pair \in body : pair[1] = f)[2]
        ELSE stored[f]]

\* client.Patch(ctx, newObj, patch): the main resource; the status is not
\* written through it
clientPatch(call, ok) ==
    LET body == Data(call.patch, call.newObj).body
        after == Patched(call.stored, body, Fields \ {"status"})
    IN IF ok
       THEN [call EXCEPT !.writes = Append(@, "Patch"), !.stored = after,
                         !.newObj = after, !.err = NilErr]
       ELSE [call EXCEPT !.writes = Append(@, "Patch"),
                         !.err = StorageErr("Patch", "test-service")]
\* client.Status().Patch(ctx, newObj, patch): the status subresource only
statusPatchOfTheObject(call, ok) == clientPatch(call, ok)
statusPatch(call, ok) ==
    LET body == Data(call.patch, call.newObj).body
        after == Patched(call.stored, body, {"status"})
    IN IF ok
       THEN [call EXCEPT !.writes = Append(@, "Status.Patch"),
                         !.stored = after, !.newObj = after, !.err = NilErr]
       ELSE [call EXCEPT !.writes = Append(@, "Status.Patch"),
                         !.err = StorageErr("Status.Patch", "test-service")]

\* what a call starts from: storage as it is, nothing written yet
Called(fn, newObj, patch) ==
    [stored |-> patching.stored, fn |-> fn, arg |-> newObj,
     newObj |-> newObj, patch |-> patch, writes |-> <<>>, patched |-> FALSE, err |-> NilErr]

patchFrame ==
    <<objects, storedAnno, nextUID, parentAnno, assertedUIDs, assertedKinds,
      fresh, pc, op, desired, children, state, marked, passError, idx,
      pending, ret, log, pre, prev, budget, harness, dryRun, dryResult,
      parents, sites, rollout>>

\* MaybePatch(ctx, client, newObj, patch)
MaybePatch ==
    /\ \E newObj \in Services, patch \in Patches, ok \in BOOLEAN :
          LET call == Called("MaybePatch", newObj, patch)
              req == IsPatchRequired(newObj, patch)
          IN patching' =
                IF req.err # NilErr
                THEN [call EXCEPT !.patched = FALSE,
                                  !.err = UnableToBuildPatch(req.err)]
                ELSE IF ~req.required
                THEN [call EXCEPT !.patched = FALSE, !.err = NilErr]
                ELSE [clientPatch(call, ok) EXCEPT !.patched = TRUE]
    /\ UNCHANGED patchFrame

\* MaybePatchStatus(ctx, client, newObj, patch)
MaybePatchStatus ==
    /\ \E newObj \in Services, patch \in Patches, ok \in BOOLEAN :
          LET call == Called("MaybePatchStatus", newObj, patch)
              req == IsPatchRequired(newObj, patch)
          IN patching' =
                IF req.err # NilErr
                THEN [call EXCEPT !.patched = FALSE,
                                  !.err = UnableToBuildPatch(req.err)]
                ELSE IF ~req.required
                THEN [call EXCEPT !.patched = FALSE, !.err = NilErr]
                ELSE [statusPatch(call, ok) EXCEPT !.patched = TRUE]
    /\ UNCHANGED patchFrame

NextPatch ==
    \/ MaybePatch
    \/ MaybePatchStatus

\* the patch helpers, called one after the other on the one stored object
SpecPatch == Init /\ [][NextPatch]_vars

(* ------------------------------ claims -------------------------------- *)
Returned(o) == pc = "done" /\ op = o
DesiredKeys == {KeyOf(desired[i]) : i \in 1..Len(desired)}
Labelled(objs, k) == objs[k] # NoObj /\ objs[k].label = ParentUID
KindsOf(kinds) == {kinds[i].kind : i \in 1..Len(kinds)}
Calls(call) == SelectSeq(log, LAMBDA e : e.call = call)

\* C1: when Reconcile on a new Reconciler has returned nil, every desired
\* child exists in storage with the parent's label, and every stored object
\* of a kind of the kind list (as mark-kinds left it) that carries the
\* parent's label is a child this call applied.
C1_ReconcileLeavesExactlyTheChildren ==
    (Returned("Reconcile") /\ ret = NilErr /\ pre.fresh) =>
        /\ \A k \in DesiredKeys : Labelled(objects, k)
        /\ \A k \in Keys :
              (k.kind \in KindsOf(marked) /\ Labelled(objects, k)) =>
                 \E i \in 1..Len(children) :
                    KeyOf(children[i]) = k /\ children[i].uid = objects[k].uid

\* a Reconcile that applied a child and deleted an orphan of a tracked kind
C1_Witness ==
    /\ Returned("Reconcile") /\ ret = NilErr /\ pre.fresh
    /\ Len(desired) > 0
    /\ \E k \in Keys :
          /\ k.kind \in KindsOf(marked)
          /\ Labelled(pre.objects, k)
          /\ objects[k] = NoObj

\* two successful Reconciles in a row, the first of one Service child on a
\* parent whose state was empty, the second of one ConfigMap child
KindMigration ==
    /\ Returned("Reconcile") /\ ret = NilErr
    /\ Len(desired) = 1 /\ desired[1].gvk.kind = "ConfigMap"
    /\ prev.op = "Reconcile" /\ prev.ok /\ prev.emptyBefore
    /\ Len(prev.desired) = 1 /\ prev.desired[1].gvk.kind = "Service"
Migrated ==
    /\ GetCompositeState(storedAnno) = <<GVK("ConfigMap", "v1")>>
    /\ objects[KeyOf(prev.desired[1])] = NoObj

\* C2 as stated: after the kind migration the persisted deployedKinds is
\* [ConfigMap v1] and the Service child is gone, on whichever Reconciler
\* instance the second Reconcile is called.
C2_KindMigrationOnAnyInstance == KindMigration => Migrated

\* C2, amended: after the kind migration with the second Reconcile called
\* on a newly constructed Reconciler, the persisted deployedKinds is
\* [ConfigMap v1] and the Service child is gone.
C2_KindMigrationOnNewInstance == (KindMigration /\ pre.fresh) => Migrated

\* the migration on a new Reconciler, the Service child having existed
C2_Witness ==
    /\ KindMigration /\ pre.fresh
    /\ pre.objects[KeyOf(prev.desired[1])] # NoObj

\* the version of the last desired child of the (group, kind) of g
LastDesired(g) ==
    LET is == {i \in 1..Len(desired) :
                 desired[i].gvk.group = g.group /\ desired[i].gvk.kind = g.kind}
    IN desired[CHOOSE i \in is : \A j \in is : j <= i].gvk
PersistedKinds == GetCompositeState(storedAnno)
InSync(p) == GetCompositeState(p.parentAnno) = GetCompositeState(p.storedAnno)

\* C3: when Reconcile on a new Reconciler has returned nil, the persisted
\* deployedKinds has exactly one entry for each (group, kind) among the
\* desired children, with the version of the (last) desired child of that
\* kind, and no other entry.
C3_PersistedKindsAreTheDesiredKinds ==
    (Returned("Reconcile") /\ ret = NilErr /\ pre.fresh) =>
        /\ \A i \in 1..Len(desired) :
              \E j \in 1..Len(PersistedKinds) :
                 PersistedKinds[j] = LastDesired(desired[i].gvk)
        /\ \A j \in 1..Len(PersistedKinds) :
              \E i \in 1..Len(desired) :
                 PersistedKinds[j] = LastDesired(desired[i].gvk)
        /\ \A i, j \in 1..Len(PersistedKinds) :
              (PersistedKinds[i].group = PersistedKinds[j].group
                 /\ PersistedKinds[i].kind = PersistedKinds[j].kind) => i = j

\* the same for calls that began with the in-memory parent carrying the
\* persisted state
C3_WhenParentInSync ==
    InSync(pre) => C3_PersistedKindsAreTheDesiredKinds

C3_WhenParentInSyncWitness ==
    /\ Returned("Reconcile") /\ ret = NilErr /\ pre.fresh /\ InSync(pre)
    /\ Len(desired) > 1
    /\ Len(GetCompositeState(pre.storedAnno)) > 0
    /\ \E i \in 1..Len(desired) : LastDesired(desired[i].gvk) # desired[i].gvk

\* C4: every Patch that Reconcile or ReconcileWithoutPrune issues carries the
\* parent label with the parent's UID, and every child in storage that the
\* reconciler has written carries it.
C4_AppliedChildrenCarryParentLabel ==
    /\ \A i \in 1..Len(log) :
          log[i].call = "Patch" => log[i].label = ParentUID
    /\ \A k \in Keys : objects[k] # NoObj => objects[k].label = ParentUID

\* a child handed over with another parent's UID under the label was applied
C4_Witness ==
    /\ pc = "done" /\ op \in {"Reconcile", "ReconcileWithoutPrune"}
    /\ \E i \in 1..Len(desired) :
          /\ desired[i].label = OtherUID
          /\ objects[KeyOf(desired[i])] # NoObj
          /\ \E j \in 1..Len(log) :
                /\ log[j].call = "Patch" /\ log[j].res = "ok"
                /\ log[j].target = KeyOf(desired[i])

\* a call of the operation of the call before, with the same desired list,
\* the call before having returned nil and nobody else having written since
Repeated ==
    /\ pc = "done"
    /\ prev.op = op /\ prev.desired = desired /\ prev.ok /\ ~prev.external
NoWrites ==
    /\ Calls("Update") = <<>>
    /\ Calls("Delete") = <<>>
    /\ objects = pre.objects
    /\ storedAnno = pre.storedAnno

C5_IdempotentOnAnyInstance == Repeated => NoWrites

\* C5: a call on the Reconciler instance of a successful call before it, of
\* the same operation with the same desired list and with no other write to
\* storage in between, issues no parent Update and no Delete and leaves
\* every stored child, its resource version included, and the persisted
\* parent as they were.
C5_Idempotent == (Repeated /\ pre.again) => NoWrites

\* a second Reconcile of two children that issued its Patches
C5_Witness ==
    /\ Repeated /\ pre.again /\ op = "Reconcile" /\ ret = NilErr
    /\ Len(desired) = 2
    /\ Len(Calls("Patch")) = 2

\* C6: (a) when Reconcile or ReconcileWithoutPrune has returned nil, the
\* field of every desired child holds the desired value in storage, whoever
\* wrote it before, and no Patch ends in an ownership conflict; (b) a field
\* that is not in the desired child (type) keeps the value it had before the
\* call on every stored child the call leaves in storage.
C6_FieldOwnership ==
    /\ \A i \in 1..Len(log) : log[i].res # "conflict"
    /\ (pc = "done" /\ op \in {"Reconcile", "ReconcileWithoutPrune"}
          /\ ret = NilErr) =>
          \A i \in 1..Len(desired) :
             objects[KeyOf(desired[i])].port = desired[i].port
    /\ pc = "done" =>
          \A k \in Keys :
             (pre.objects[k] # NoObj /\ objects[k] # NoObj) =>
                objects[k].type = pre.objects[k].type

\* a Reconcile of a child whose two fields an external actor had written
C6_Witness ==
    /\ Returned("Reconcile") /\ ret = NilErr
    /\ \E i \in 1..Len(desired) :
          LET k == KeyOf(desired[i]) IN
          /\ pre.objects[k] # NoObj
          /\ pre.objects[k].port = ExternalPort
          /\ pre.objects[k].type = ExternalType
          /\ objects[k].port = DesiredPort
          /\ objects[k].type = ExternalType

\* the error a fan-out returns for the failed calls among entries, in order:
\* the failure itself for one, a composite of the causes for more
Aggregated(entries) ==
    IF entries = <<>> THEN NilErr
    ELSE [tag |-> IF Len(entries) = 1 THEN "single" ELSE "composite",
          causes |-> [i \in 1..Len(entries) |->
                        [call |-> entries[i].call, target |-> entries[i].target]]]
Failed(call) == SelectSeq(log, LAMBDA e : e.call = call /\ e.res # "ok")
\* the kind list prune walks: state.DeployedKinds as prune received it
Tracked == IF op = "Prune" THEN GetCompositeState(pre.parentAnno) ELSE marked
\* prune has listed every tracked kind
ListedAll ==
    /\ pc = "done" /\ op \in {"Reconcile", "Prune"}
    /\ Len(Tracked) > 0
    /\ Len(Calls("List")) = Len(Tracked)
    /\ \A i \in 1..Len(log) : log[i].call = "List" => log[i].res = "ok"
\* the objects prune has to delete: labelled for the parent, of a tracked
\* kind, and not asserted on this Reconciler
Orphans ==
    {k \in Keys : /\ Labelled(pre.objects, k)
                  /\ k.kind \in KindsOf(Tracked)
                  /\ ~hasUID(assertedUIDs, pre.objects[k].uid)}

\* C7: when prune has listed every tracked kind, it has issued exactly one
\* Delete for every orphan and none for anything else; every orphan whose
\* Delete succeeded is gone from storage and every other one is still there;
\* and when some Deletes failed the call returns exactly these failures, in
\* order: the failure itself for one, a composite for more.
C7_PruneIsolatesDeleteFailures ==
    ListedAll =>
        /\ \A k \in Orphans :
              Cardinality({i \in 1..Len(log) :
                 log[i].call = "Delete" /\ log[i].target = k}) = 1
        /\ \A i \in 1..Len(log) :
              log[i].call = "Delete" =>
                 /\ log[i].target \in Orphans
                 /\ log[i].res = "ok" => objects[log[i].target] = NoObj
                 /\ log[i].res # "ok" =>
                       objects[log[i].target] = pre.objects[log[i].target]
        /\ Failed("Delete") # <<>> => ret = Aggregated(Failed("Delete"))

\* one of three orphans could not be deleted
C7_Witness ==
    /\ ListedAll
    /\ Cardinality(Orphans) = 3
    /\ Len(Failed("Delete")) = 1

\* prune has changed neither the in-memory nor the persisted parent: they
\* are as markDesiredKinds left them, or as they were for Prune()
ParentAsBeforePrune ==
    /\ GetCompositeState(parentAnno) = Tracked
    /\ \A i, j \in 1..Len(log) :
          (log[i].call = "Update" /\ log[j].call = "List") => i < j
    /\ storedAnno = IF Calls("Update") = <<>> THEN pre.storedAnno
                    ELSE Marshal(marked)

\* C8: when a Delete has failed during prune, the call returns the
\* aggregate of the failed Deletes, prune has issued no parent Update and
\* has changed neither the in-memory nor the persisted parent, and the kind
\* of every orphan still in storage is in the kind list.
C8_DeleteFailureKeepsKindList ==
    (pc = "done" /\ Failed("Delete") # <<>>) =>
        /\ ret = Aggregated(Failed("Delete"))
        /\ ParentAsBeforePrune
        /\ \A k \in Orphans :
              objects[k] # NoObj =>
                 k.kind \in KindsOf(GetCompositeState(parentAnno))

\* the apply phase was entered with children to upsert
Applied ==
    /\ pc = "done" /\ op \in {"Reconcile", "ReconcileWithoutPrune"}
    /\ Calls("Patch") # <<>>

\* C9: when assertChildren has run, it has issued one Patch for every
\* desired child, in list order, whichever of them failed; when some failed
\* the call returns exactly these failures, in order; when none failed the
\* apply phase returned nil: ReconcileWithoutPrune returns nil and Reconcile
\* has gone on to prune.
C9_ApplyIsolatesPatchFailures ==
    Applied =>
        /\ Len(Calls("Patch")) = Len(desired)
        /\ \A i \in 1..Len(desired) :
              Calls("Patch")[i].target = KeyOf(desired[i])
        /\ Failed("Patch") # <<>> => ret = Aggregated(Failed("Patch"))
        /\ Failed("Patch") = <<>> =>
              /\ op = "ReconcileWithoutPrune" => ret = NilErr
              /\ op = "Reconcile" =>
                    \A i \in 1..Len(ret.causes) : ret.causes[i].call # "Patch"

\* the Patch of the first of two children failed, the second was created
C9_Witness ==
    /\ Applied
    /\ Len(desired) = 2
    /\ Calls("Patch")[1].res # "ok"
    /\ Calls("Patch")[2].res = "ok"
    /\ pre.objects[KeyOf(desired[2])] = NoObj
    /\ objects[KeyOf(desired[2])] # NoObj

\* C10: during and after ReconcileWithoutPrune no Delete has been issued,
\* every object that was in storage when the call began is still there, and
\* every (group, kind) of the kind list persisted when the call began is
\* still in the persisted kind list.
C10_WithoutPruneRemovesNothing ==
    op = "ReconcileWithoutPrune" =>
        /\ Calls("Delete") = <<>>
        /\ \A k \in Keys : pre.objects[k] # NoObj => objects[k] # NoObj
        /\ KindsOf(GetCompositeState(pre.storedAnno)) \subseteq KindsOf(PersistedKinds)

\* the keep-set of the Reconciler instance: the identities its calls recorded
KeepSet == {assertedUIDs[i] : i \in 1..Len(assertedUIDs)}
DeleteTargets == {log[i].target : i \in {j \in 1..Len(log) : log[j].call = "Delete"}}
\* Prune() called on the instance of the call before, which was a Reconcile
\* or ReconcileWithoutPrune: its desired list holds the last-known children
PruneAfterApply ==
    /\ Returned("Prune") /\ pre.again
    /\ prev.op \in {"Reconcile", "ReconcileWithoutPrune"}

\* C11 as stated: Prune() issues no Patch and no Update of a child, and keeps
\* the last-known children by their current identities in storage: it
\* issues no Delete for a child of the desired list of the call before on
\* the instance that is in storage when Prune() begins.
C11_PruneKeepsLastKnownChildren ==
    /\ op = "Prune" => Calls("Patch") = <<>>
    /\ PruneAfterApply =>
          \A i \in 1..Len(prev.desired) :
             pre.objects[KeyOf(prev.desired[i])] # NoObj =>
                KeyOf(prev.desired[i]) \notin DeleteTargets

\* C11, amended: Prune() issues no Patch and no call on a child but List and
\* Delete; once it has listed every tracked kind, the objects it has issued
\* a Delete for are exactly the objects of a tracked kind labelled for the
\* parent whose identity is not among the identities recorded by the earlier
\* calls on the instance.
C11_PruneKeepsRecordedIdentities ==
    op = "Prune" =>
        /\ \A i \in 1..Len(log) :
              /\ log[i].call \in {"List", "Delete", "Update"}
              /\ log[i].call = "Update" => log[i].target = ParentKey
        /\ ListedAll =>
              DeleteTargets =
                 {k \in Keys : /\ Labelled(pre.objects, k)
                               /\ k.kind \in KindsOf(Tracked)
                               /\ pre.objects[k].uid \notin KeepSet}

\* a Prune() that kept a recorded child and deleted another of its kind
C11_Witness ==
    /\ PruneAfterApply /\ ListedAll
    /\ \E k, l \in Keys :
          /\ k.kind = l.kind
          /\ pre.objects[k] # NoObj /\ pre.objects[k].uid \in KeepSet
          /\ objects[k] # NoObj
          /\ pre.objects[l] # NoObj /\ objects[l] = NoObj

\* a Reconcile that returned nil, re-invoked with the desired list of a
\* Reconcile that had failed
Retried ==
    /\ Returned("Reconcile") /\ ret = NilErr
    /\ prev.op = "Reconcile" /\ ~prev.ok /\ prev.desired = desired
\* storage holds exactly the desired children labelled for the parent, and
\* the persisted kind list is the list of the desired kinds
Converged ==
    /\ \A k \in Keys : Labelled(objects, k) <=> k \in DesiredKeys
    /\ \A i \in 1..Len(desired) :
          \E j \in 1..Len(PersistedKinds) :
             PersistedKinds[j] = LastDesired(desired[i].gvk)
    /\ \A j \in 1..Len(PersistedKinds) :
          \E i \in 1..Len(desired) :
             PersistedKinds[j] = LastDesired(desired[i].gvk)

\* C12: when a Reconcile that failed at a storage call is re-invoked with
\* the same desired list and the retry returns nil, storage holds exactly
\* the desired children labelled for the parent and the persisted kind list
\* equals the desired kinds.
C12_RetryConverges == Retried => Converged

\* the causes other than a failed storage call
PermanentCauses == {"Unmarshal", "GVKForObject", "Accessor", "SetControllerReference"}
StorageCalls == {"Update", "Patch", "List", "Delete"}
Malformed(anno) == anno.map /\ anno.present /\ ~anno.valid

\* C13: the error a call returns satisfies IsPermanentError exactly when
\* the call met malformed persisted state or, in Reconcile and
\* ReconcileWithoutPrune, a child whose kind cannot be resolved, whose
\* metadata cannot be read or which cannot take the parent as controller;
\* its cause is then that step, and an error with a failed storage call
\* among its causes, alone or in a composite, is never permanent.
C13_PermanentExactlyForFaults ==
    pc = "done" =>
        /\ IsPermanentError(ret) <=>
              \/ Malformed(pre.parentAnno)
              \/ op # "Prune" /\ FirstFault(desired) > 0
        /\ IsPermanentError(ret) =>
              \A i \in 1..Len(ret.causes) : ret.causes[i].call \in PermanentCauses
        /\ (\E i \in 1..Len(ret.causes) : ret.causes[i].call \in StorageCalls) =>
              ~IsPermanentError(ret)

\* a permanent error from the second child, which cannot take the parent as
\* controller, in a run where a storage call had failed before
C13_Witness ==
    /\ pc = "done" /\ IsPermanentError(ret)
    /\ Len(desired) = 2 /\ FirstFault(desired) = 2
    /\ desired[2].fault = "owner"
    /\ budget.failures > 0

\* C15: a call on a parent without annotation map, or whose map lacks the
\* reserved key, begins with the empty state and returns no decode error;
\* a call on a parent whose reserved annotation is malformed returns at
\* once a permanent error, having issued no storage call and changed
\* nothing in storage.
C15_StateReadFromAnnotation ==
    /\ (op # "none" /\ (~pre.parentAnno.map \/ ~pre.parentAnno.present)) =>
          /\ pc = "mark" => state = <<>>
          /\ op = "Prune" => Calls("List") = <<>>
          /\ \A i \in 1..Len(ret.causes) : ret.causes[i].call # "Unmarshal"
    /\ (op # "none" /\ Malformed(pre.parentAnno)) =>
          /\ pc = "done"
          /\ IsPermanentError(ret)
          /\ ret.causes = <<[call |-> "Unmarshal", target |-> ParentKey]>>
          /\ log = <<>>
          /\ objects = pre.objects
          /\ storedAnno = pre.storedAnno

\* a Reconcile of a child refused for the malformed state of the parent
C15_Witness ==
    /\ Returned("Reconcile") /\ Malformed(pre.parentAnno)
    /\ Len(desired) > 0 /\ FirstFault(desired) = 0
    /\ \E k \in Keys : objects[k] # NoObj

InList(kinds, g) == \E i \in 1..Len(kinds) : SameGroupKind(kinds[i], g)
LastVersion(kinds, g) ==
    LET last == CHOOSE i \in 1..Len(kinds) :
                    /\ SameGroupKind(kinds[i], g)
                    /\ \A j \in (i + 1)..Len(kinds) : ~SameGroupKind(kinds[j], g)
    IN kinds[last].version
\* the pairs of the first n desired kinds that the list does not hold, each
\* once, in the order of their first occurrence
RECURSIVE NewPairs(_, _, _)
NewPairs(deployed, kinds, n) ==
    IF n = 0 THEN <<>>
    ELSE LET before == NewPairs(deployed, kinds, n - 1) IN
         IF InList(deployed, kinds[n]) \/ InList(SubSeq(kinds, 1, n - 1), kinds[n])
         THEN before
         ELSE Append(before, kinds[n])
EnsureKindsCalled == harness.fn = "EnsureKinds" /\ harness.out.done

\* C17: after EnsureKinds(desired) the list holds (a) every desired
\* (group, kind), with the version of its last occurrence in the desired list;
\* (b) every entry it held before at the same index, with its version changed
\* only when the pair is desired; (c) after those, the pairs it did not hold,
\* in the order of their first occurrence in the desired list, and nothing else.
C17_EnsureKindsMerge ==
    EnsureKindsCalled =>
        LET before == harness.historical
            kinds == harness.kinds
            after == harness.out.first.kinds
            new == NewPairs(before, kinds, Len(kinds))
        IN /\ \A i \in 1..Len(kinds) :
                  \E j \in 1..Len(after) :
                      /\ SameGroupKind(after[j], kinds[i])
                      /\ after[j].version = LastVersion(kinds, kinds[i])
           /\ Len(after) = Len(before) + Len(new)
           /\ \A j \in 1..Len(before) :
                  /\ SameGroupKind(after[j], before[j])
                  /\ after[j].version =
                        IF InList(kinds, before[j])
                        THEN LastVersion(kinds, before[j])
                        ELSE before[j].version
           /\ \A k \in 1..Len(new) :
                  SameGroupKind(after[Len(before) + k], new[k])

\* a list of two entries merged with a desired list that changes the version
\* of one, leaves the other alone, and brings a pair the list did not hold
C17_Witness ==
    /\ EnsureKindsCalled
    /\ Len(harness.historical) = 2 /\ Len(harness.kinds) = 3
    /\ Len(harness.out.first.kinds) = 3
    /\ \E j \in 1..2 :
          harness.out.first.kinds[j].version # harness.historical[j].version
    /\ \E j \in 1..2 : ~InList(harness.kinds, harness.historical[j])

\* a desired list that names no (group, kind) with two different versions
SingleVersion(kinds) ==
    \A i, j \in 1..Len(kinds) :
        SameGroupKind(kinds[i], kinds[j]) => kinds[i].version = kinds[j].version

\* C18: EnsureKinds returns true exactly when the list after the call differs
\* from the list before it, also for a desired list that names a
\* (group, kind) more than once with different versions; a second call with
\* the same desired list returns false and leaves the list unchanged.
C18_TrueIffListDiffers ==
    EnsureKindsCalled =>
        /\ harness.out.first.changed
              <=> (harness.out.first.kinds # harness.historical)
        /\ ~harness.out.second.changed
        /\ harness.out.second.kinds = harness.out.first.kinds

\* what the code does: true exactly when an assignment was made during the
\* call, which is when the list differs or the desired list names a
\* (group, kind) with two versions; the second call leaves the list alone
C18_TrueIffAssigned ==
    EnsureKindsCalled =>
        /\ harness.out.first.changed
              <=> \/ harness.out.first.kinds # harness.historical
                  \/ ~SingleVersion(harness.kinds)
        /\ harness.out.second.changed <=> ~SingleVersion(harness.kinds)
        /\ harness.out.second.kinds = harness.out.first.kinds

C18_AssignedWitness ==
    /\ EnsureKindsCalled
    /\ ~SingleVersion(harness.kinds)
    /\ harness.out.first.kinds = harness.historical
    /\ harness.out.first.changed /\ harness.out.second.changed

\* C19: the parent starts with a kind list that has no two entries with the
\* same (group, kind); after any sequence of Reconcile, ReconcileWithoutPrune
\* and Prune calls, succeeding or failing, on one or several instances, the
\* kind list of the parent in memory, the one persisted, and the State a call
\* works on have no two entries with the same (group, kind).
C19_KindListUnique ==
    /\ Unique(GetCompositeState(parentAnno))
    /\ Unique(GetCompositeState(storedAnno))
    /\ Unique(state)

\* a Reconcile of two children of one kind in two versions, after an earlier
\* call and a failed storage call, that leaves the kind once in the persisted
\* list, with the version of the second child
C19_Witness ==
    /\ pc = "done" /\ op = "Reconcile" /\ ret = NilErr
    /\ Len(desired) = 2
    /\ SameGroupKind(desired[1].gvk, desired[2].gvk)
    /\ desired[1].gvk.version # desired[2].gvk.version
    /\ budget.failures > 0 /\ budget.calls > 1
    /\ Len(GetCompositeState(storedAnno)) = 1
    /\ GetCompositeState(storedAnno)[1].version = desired[2].gvk.version

\* a dry-run Reconcile is running or has returned
InDryRun == pc # "idle" /\ dryRun
\* storage and the parent are as they were when the call began
AsBefore ==
    /\ objects = pre.objects
    /\ storedAnno = pre.storedAnno
    /\ parentAnno = pre.parentAnno
\* a Reconcile without dryRun has returned nil, and the call before it was a
\* dry-run Reconcile of the same desired list that began in the same state
\* and returned nil
AfterRehearsal ==
    /\ pc = "done" /\ ~dryRun /\ ret = NilErr
    /\ dryResult.valid
    /\ dryResult.desired = desired
    /\ dryResult.pre.objects = pre.objects
    /\ dryResult.pre.storedAnno = pre.storedAnno
    /\ dryResult.pre.parentAnno = pre.parentAnno
UIDSet(uids) == {uids[i] : i \in 1..Len(uids)}

\* C14: a Reconcile in dry-run mode creates and deletes no child and leaves
\* the persisted parent and its annotation as they were, and the keep-set it
\* computes holds the same identities as the keep-set of a call without
\* dry-run with the same desired list.
C14_DryRunFidelity ==
    /\ InDryRun => AsBefore
    /\ AfterRehearsal => UIDSet(dryResult.keep) = UIDSet(assertedUIDs)

\* C14 for the children that exist: the same, where the keep-set holds the
\* identity the call without dry-run keeps for every desired child that was
\* in storage when the call began, and for every other desired child an
\* identity no stored object has; the objects it asks to delete are the ones
\* the call without dry-run deletes.
C14_DryRunFidelityForStoredChildren ==
    /\ InDryRun => AsBefore
    /\ AfterRehearsal =>
          /\ Len(dryResult.keep) = Len(assertedUIDs)
          /\ \A i \in 1..Len(desired) :
                IF pre.objects[KeyOf(desired[i])] # NoObj
                THEN dryResult.keep[i] = assertedUIDs[i]
                ELSE \A k \in Keys :
                        objects[k] # NoObj => objects[k].uid # dryResult.keep[i]
          /\ dryResult.deleted = Deleted(log)

\* the rehearsed Reconcile kept a child that was there, created one that was
\* not, and deleted a third
C14_Witness ==
    /\ AfterRehearsal
    /\ Len(desired) = 2
    /\ pre.objects[KeyOf(desired[1])] # NoObj
    /\ pre.objects[KeyOf(desired[2])] = NoObj
    /\ Len(Deleted(log)) = 1
    /\ dryResult.keep[2] # NoUID

\* the keys of the children a parent may desire, and its objects in storage
KeysOf(p) == {KeyOf(c) : c \in ChildPoolOf(p)}
LabelledFor(p, objs) == {k \in Keys : objs[k] # NoObj /\ objs[k].label = p}
\* what running Reconcile(cs) for p alone leaves under key k when it began
\* with before: nothing if no child of cs has the key, else the child
\* written over what was there (with the UID the object has, if created)
AloneLeaves(p, cs, before, k) ==
    IF \A i \in 1..Len(cs) : KeyOf(cs[i]) # k THEN NoObj
    ELSE LET c == cs[CHOOSE i \in 1..Len(cs) : KeyOf(cs[i]) = k]
         IN Written(before[k], LabelledChildOf(p, c), applyOptions,
                    objects[k].uid)
\* the step is one of the Reconciler of p
StepOf(p) == parents'[p] # parents[p]

\* C20: for two parents with disjoint desired children and every
\* interleaving of the storage calls of their Reconciles, no step for one
\* parent deletes or changes an object labelled for the other or changes the
\* other's persisted state or Reconciler, and a Reconcile on a new Reconciler
\* that returns nil leaves under the keys of its parent what it leaves when
\* run alone, so the storage at the end is the one of the two run one after
\* the other.
C20_ParentsAreIsolated ==
    /\ [][\A p \in Parents : StepOf(p) =>
             \A q \in Parents \ {p} :
                /\ parents'[q] = parents[q]
                /\ \A k \in LabelledFor(q, objects) \cup KeysOf(q) :
                      objects'[k] = objects[k]]_vars
    /\ [](\A p \in Parents :
             (parents[p].pc = "done" /\ parents[p].ret = NilErr
                                     /\ parents[p].onNew) =>
                /\ LabelledFor(p, objects) \subseteq KeysOf(p)
                /\ \A k \in KeysOf(p) :
                      /\ objects[k] = AloneLeaves(p, parents[p].desired,
                                                  parents[p].pre, k)
                      /\ objects[k] # NoObj => objects[k].uid # NoUID)

\* one parent has deleted a child of its own and returned nil while the other
\* is in its prune, a child of the same kind labelled for it in storage
C20_Witness ==
    \E p \in Parents, q \in Parents :
        /\ p # q
        /\ parents[p].pc = "done" /\ parents[p].ret = NilErr
        /\ parents[p].onNew
        /\ \E k \in KeysOf(p), j \in KeysOf(q) :
              /\ parents[p].pre[k] # NoObj /\ objects[k] = NoObj
              /\ j.kind = k.kind
              /\ objects[j] # NoObj /\ objects[j].label = q
        /\ parents[q].pc \in {"list", "delete"}

\* the parent Update of markDesiredKinds was issued and failed: it is the
\* first storage call of Reconcile and ReconcileWithoutPrune
MarkUpdateFailed ==
    /\ op \in {"Reconcile", "ReconcileWithoutPrune"}
    /\ Len(log) > 0
    /\ log[1].call = "Update" /\ log[1].res # "ok"

\* C30: when the parent Update that persists the merged kind list in
\* markDesiredKinds fails, Reconcile and ReconcileWithoutPrune return that
\* error at once: no Patch, List or Delete is issued in the call, and storage
\* is as it was when the call began.
C30_MarkUpdateFailureReturnsAtOnce ==
    MarkUpdateFailed =>
        /\ pc = "done"
        /\ Len(log) = 1
        /\ ret.tag = "single"
        /\ ret.causes = <<[call |-> "Update", target |-> ParentKey]>>
        /\ objects = pre.objects
        /\ storedAnno = pre.storedAnno

\* the Update failed in a Reconcile of two children on a parent that has
\* children in storage
C30_Witness ==
    /\ MarkUpdateFailed
    /\ op = "Reconcile"
    /\ Len(desired) = 2
    /\ \E k \in Keys : Labelled(objects, k)

\* the phase a storage call of Reconcile belongs to: the Update of
\* markDesiredKinds comes first if at all (0), then the Patches (1), then the
\* Lists and Deletes of prune (2), then the Update that shrinks (3)
Phase(i) ==
    IF log[i].call = "Update" THEN (IF i = 1 THEN 0 ELSE 3)
    ELSE IF log[i].call = "Patch" THEN 1
    ELSE 2
PatchesBefore(j) == Cardinality({i \in 1..(j - 1) : log[i].call = "Patch"})

\* C28: in every Reconcile the parent Update that persists newly marked
\* kinds has completed before the first child Patch is issued, every child
\* Patch has been issued before the first List or Delete of prune, and the
\* parent Update that shrinks the kind list comes after the last Delete.
C28_PhaseOrder ==
    op = "Reconcile" =>
        /\ \A i, j \in 1..Len(log) : i < j => Phase(i) <= Phase(j)
        /\ \A j \in 2..Len(log) : Phase(1) = 0 => log[1].res = "ok"
        /\ \A j \in 1..Len(log) :
              Phase(j) >= 2 => PatchesBefore(j) = Len(desired)
        /\ \A j \in 1..Len(log) : Phase(j) = 3 => j = Len(log)

\* a Reconcile that went through all four phases
C28_Witness ==
    /\ Returned("Reconcile")
    /\ \E i \in 1..Len(log) : Phase(i) = 0
    /\ \E i \in 1..Len(log) : Phase(i) = 1
    /\ \E i \in 1..Len(log) : log[i].call = "Delete"
    /\ Phase(Len(log)) = 3

\* C29: in every reachable state of a sequence of Reconcile,
\* ReconcileWithoutPrune and Prune calls on one parent, failing calls retried
\* with the same in-memory parent included, every stored object labelled for
\* the parent has its (group, kind) in the kind list persisted on the parent.
C29_NoForgottenKinds ==
    \A k \in Keys :
        Labelled(objects, k) =>
            \E i \in 1..Len(PersistedKinds) :
                PersistedKinds[i].group = "" /\ PersistedKinds[i].kind = k.kind

\* the keys of the children a site desires, and of the parent's children in
\* storage
SiteKeys(s) == {KeyOf(sites.of[s].desired[i]) : i \in 1..Len(sites.of[s].desired)}
ChildrenInStorage == {k \in Keys : Labelled(objects, k)}
SiteReturnedNil(s) == sites.of[s].pc = "done" /\ sites.of[s].ret = NilErr

\* C21: the Reconciler takes no lock, so two call sites can reconcile the
\* same parent at once: a site that is not in a call can always begin one,
\* whatever the other site is doing. A Reconcile that returns nil and that no
\* call of the other site overlaps leaves exactly its desired children, so
\* the outcome of either serial order of two Reconciles is the desired list
\* of the later one; the overlapping run in which one Reconcile deletes a
\* child the other has applied and desires, both return nil and the children
\* left are those of neither desired list, is C21_Witness.
C21_NoLockOnTheParent ==
    \A s \in Sites :
        /\ sites.of[s].pc = "idle" => CanCall(s)
        /\ (SiteReturnedNil(s) /\ ~sites.of[s].overlapped /\ sites.of[s].covered)
              => ChildrenInStorage = SiteKeys(s)

\* two overlapping Reconciles with different desired lists have both returned
\* nil; one has deleted a child that the other applied and desires, and the
\* children in storage are those of neither serial order
C21_Witness ==
    \E s \in Sites, t \in Sites :
        /\ s # t
        /\ SiteReturnedNil(s) /\ SiteReturnedNil(t)
        /\ sites.of[s].overlapped /\ sites.of[t].overlapped
        /\ sites.of[s].covered /\ sites.of[t].covered
        /\ sites.of[s].desired # sites.of[t].desired
        /\ (sites.of[s].applied \cap SiteKeys(s) \cap sites.of[t].deleted) # {}
        /\ ChildrenInStorage # SiteKeys(s)
        /\ ChildrenInStorage # SiteKeys(t)

\* C22: Append(nil, e) is e itself, classification included, and
\* Append(e, nil) is e unchanged, for every error e that an operation can
\* return (plain, permanent, composite); Append(nil, nil) is nil.
C22_AppendIdentity ==
    (harness.fn = "Append" /\ harness.out.done) =>
        \A i \in 1..Len(harness.results) :
            /\ harness.out.ontoNil[i] = harness.results[i]
            /\ harness.out.toNil[i] = harness.results[i]
            /\ harness.results[i] = NilErr => harness.out.ontoNil[i] = NilErr
C22_Witness ==
    /\ harness.fn = "Append" /\ harness.out.done
    /\ \E i, j, k \in 1..Len(harness.results) :
          /\ harness.results[i] = NilErr
          /\ IsPermanentError(harness.results[j])
          /\ IsPermanentError(harness.out.ontoNil[j])
          /\ harness.results[k].tag = "composite"

\* the results that are errors, in the order they occurred
RECURSIVE NonNil(_)
NonNil(results) ==
    IF results = <<>> THEN <<>>
    ELSE IF Head(results) = NilErr THEN NonNil(Tail(results))
    ELSE <<Head(results)>> \o NonNil(Tail(results))
Plain(results) == \A i \in 1..Len(results) : results[i].tag # "composite"
BodyToSend == patching.patch.type = "merge" /\ patching.arg # patching.patch.from
BodyFailed == patching.patch.type = "broken"
\* C26: MaybePatch issues the Patch call exactly once when the patch body
\* was generated and is not the empty object, and no Patch call otherwise;
\* the flag it returns is true exactly when the call was issued, and when
\* the body cannot be generated it returns an error with the flag false.
C26_MaybePatchWritesWhenRequired ==
    patching.fn = "MaybePatch" =>
        /\ BodyToSend => patching.writes = <<"Patch">>
        /\ ~BodyToSend => patching.writes = <<>>
        /\ patching.patched <=> patching.writes # <<>>
        /\ BodyFailed => (patching.err # NilErr /\ ~patching.patched)
C26_Witness ==
    /\ patching.fn = "MaybePatch"
    /\ BodyToSend
    /\ patching.writes = <<"Patch">>
    /\ patching.patched
    /\ patching.err # NilErr

\* C27: MaybePatchStatus issues a Patch of the status subresource exactly
\* when the patch body was generated and is not the empty object and never
\* a Patch of the main resource; MaybePatch never issues a Patch of the
\* status subresource; with an empty or failed body no writer is called.
C27_StatusGoesToTheStatusWriter ==
    /\ patching.fn = "MaybePatchStatus" =>
          /\ BodyToSend <=> patching.writes = <<"Status.Patch">>
          /\ \A i \in 1..Len(patching.writes) : patching.writes[i] # "Patch"
    /\ patching.fn = "MaybePatch" =>
          \A i \in 1..Len(patching.writes) : patching.writes[i] # "Status.Patch"
    /\ ~BodyToSend => patching.writes = <<>>
C27_Witness ==
    /\ patching.fn = "MaybePatchStatus"
    /\ BodyToSend
    /\ patching.writes = <<"Status.Patch">>
    /\ patching.stored.status = "1.2.3.4"
    /\ patching.stored.labels = "best-deployment"

\* a child of the desired list whose kind cannot be resolved
UnresolvableKind == \E i \in 1..Len(desired) : desired[i].fault = "kind"
Writes == SelectSeq(log, LAMBDA e : e.call \in {"Update", "Patch", "Delete"})
\* C31: when the kind of a desired child cannot be resolved, Reconcile and
\* ReconcileWithoutPrune issue no storage write at any point of the call (no
\* parent Update, no Patch of any child, also of those before it in the
\* list, no Delete), and return a permanent error with storage as it was.
C31_UnresolvableKindWritesNothing ==
    (op \in {"Reconcile", "ReconcileWithoutPrune"} /\ UnresolvableKind) =>
        /\ Writes = <<>>
        /\ pc \in {"mark", "done"}
        /\ pc = "done" =>
              /\ IsPermanentError(ret)
              /\ objects = pre.objects
              /\ storedAnno = pre.storedAnno
C31_Witness ==
    /\ pc = "done" /\ op = "Reconcile"
    /\ Len(desired) = 2 /\ desired[2].fault = "kind"
    /\ desired[1].fault = "none"
    /\ objects[KeyOf(desired[1])] = NoObj
    /\ IsPermanentError(ret)
    /\ ret.causes[1].call = "GVKForObject"
    /\ GetCompositeState(storedAnno) = <<>>

\* the position in the log of the first Patch that failed, 0 if none did
FirstFailedPatch ==
    IF \E i \in 1..Len(log) : log[i].call = "Patch" /\ log[i].res # "ok"
    THEN CHOOSE i \in 1..Len(log) :
            /\ log[i].call = "Patch" /\ log[i].res # "ok"
            /\ \A j \in 1..(i - 1) : ~(log[j].call = "Patch" /\ log[j].res # "ok")
    ELSE 0
\* C32: when the upsert of a child has failed during Reconcile, pruning is
\* not attempted in that call: no List and no Delete is issued, the kind
\* list is not shrunk (no parent Update follows, the persisted list is the
\* one mark-kinds left), and no object that existed before the call is gone.
C32_FailedUpsertSkipsPrune ==
    (op = "Reconcile" /\ FirstFailedPatch > 0) =>
        /\ pc \in {"apply", "done"}
        /\ Calls("List") = <<>> /\ Calls("Delete") = <<>>
        /\ \A i \in FirstFailedPatch..Len(log) : log[i].call = "Patch"
        /\ GetCompositeState(parentAnno) = marked
        /\ \A k \in Keys : pre.objects[k] # NoObj => objects[k] # NoObj
        /\ pc = "done" => ret # NilErr
C32_Witness ==
    /\ pc = "done" /\ op = "Reconcile"
    /\ FirstFailedPatch = 1 /\ Len(log) = 2 /\ log[2].res = "ok"
    /\ \E k \in Keys \ DesiredKeys :
          /\ Labelled(objects, k)
          /\ ~hasUID(assertedUIDs, objects[k].uid)
          /\ k.kind \in KindsOf(state)

\* the objects a step removes from storage
Removed == {k \in Keys : objects[k] # NoObj /\ objects'[k] = NoObj}
\* C33: whatever the outcome of the call, prune deletes only an object that
\* a List of a kind of the parent's kind list, filtered on the parent's
\* label, returned and whose UID is not in the keep-set: never an object in
\* the keep-set, an object labelled for another parent or for none, or an
\* object of a kind that is not in the kind list.
C33_PruneDeletesOnlyListedOrphans ==
    [][\A p \in Parents : \A k \in Removed :
          StepOf(p) =>
             LET r == parents[p] IN
             /\ r.pc = "delete" /\ k = Head(r.pending)
             /\ r.idx \in 1..Len(r.state) /\ r.state[r.idx].kind = k.kind
             /\ objects[k].label = p
             /\ objects[k].uid \notin UIDSet(r.assertedUIDs)]_vars
C33_Witness ==
    \E p \in Parents :
        LET r == parents[p] IN
        /\ r.pc = "done" /\ r.ret = NilErr
        /\ \E k \in Keys :
              /\ r.pre[k] # NoObj /\ r.pre[k].label = p /\ objects[k] = NoObj
              /\ \E other \in Keys :
                    /\ other.kind = k.kind
                    /\ objects[other] # NoObj /\ objects[other].label \notin {p}
        /\ \E kept \in Keys :
              /\ r.pre[kept] # NoObj /\ objects[kept] # NoObj
              /\ objects[kept].label = p
              /\ objects[kept].uid \in UIDSet(r.assertedUIDs)

\* the UIDs the apply phase of the running call has recorded, one for each
\* Patch it has issued, and the PatchCalls of the call
PatchCalls == Calls("Patch")
Recorded ==
    SubSeq(assertedUIDs, Len(assertedUIDs) - Len(PatchCalls) + 1, Len(assertedUIDs))
C34_KeepSetOfInMemoryUIDs ==
    (op \in {"Reconcile", "ReconcileWithoutPrune"} /\ pc # "idle") =>
        /\ Len(Recorded) = Len(PatchCalls)
        /\ \A i \in 1..Len(PatchCalls) :
              /\ Recorded[i] = children[i].uid
              /\ PatchCalls[i].res = "ok" => Recorded[i] = objects[PatchCalls[i].target].uid
              /\ PatchCalls[i].res # "ok" => Recorded[i] = desired[i].uid
C34_InMemoryWitness ==
    /\ pc = "done" /\ Len(PatchCalls) = 2
    /\ PatchCalls[1].res = "ok" /\ PatchCalls[2].res # "ok"
    /\ Recorded[2] # NoUID

\* the parent cannot be set as controller of a child that has a namespace
OwnershipRefused ==
    \E i \in 1..Len(desired) :
        desired[i].fault = "owner" /\ desired[i].namespace # ""
\* C35: the parent is set as controller-owner of a child exactly when the
\* child has a namespace: every child with a namespace is upserted with the
\* parent as its controller, a child without one is upserted with the label
\* only, and when ownership cannot be assigned the call returns a permanent
\* error and has issued no storage write.
C35_OwnerIffNamespaced ==
    (op \in {"Reconcile", "ReconcileWithoutPrune"} /\ pc # "idle") =>
        /\ \A i \in 1..Len(PatchCalls) :
              LET c == children[i]
                  stored == objects[PatchCalls[i].target]
              IN /\ PatchCalls[i].target = KeyOf(c)
                 /\ c.label = ParentUID
                 /\ c.owner <=> desired[i].namespace # ""
                 /\ (PatchCalls[i].res = "ok" /\ stored # NoObj) =>
                       /\ stored.owner <=> desired[i].namespace # ""
                       /\ stored.label = ParentUID
        /\ OwnershipRefused =>
              /\ Writes = <<>>
              /\ pc \in {"mark", "done"}
              /\ pc = "done" => IsPermanentError(ret)
C35_Witness ==
    /\ pc = "done" /\ op = "Reconcile" /\ ret = NilErr
    /\ Len(desired) = 2
    /\ desired[1].namespace = "" /\ desired[1].fault = "owner"
    /\ desired[2].namespace # ""
    /\ ~objects[KeyOf(desired[1])].owner
    /\ objects[KeyOf(desired[2])].owner
    /\ prev.op = "Reconcile" /\ ~prev.ok /\ prev.desired # <<>>
    /\ prev.desired[Len(prev.desired)].fault = "owner"
    /\ prev.desired[Len(prev.desired)].namespace # ""

\* the value under a key of a label map, NoValue when the map is absent or
\* does not hold the key
ValueOf(labels, key) == IF labels.map THEN labels[key] ELSE NoValue
\* C36: mark-kinds changes only the correlation label of a child's label
\* map: the map exists afterwards, also when it was absent, the correlation
\* key holds the parent's UID whatever it held before, and every other key
\* has the value it had before (and is absent when it was absent).
C36_OnlyTheParentLabelChanges ==
    (harness.fn = "markDesiredKinds" /\ harness.out.done) =>
        /\ Len(harness.out.labels) = Len(harness.labels)
        /\ \A i \in 1..Len(harness.labels) :
              LET before == harness.labels[i]
                  after == harness.out.labels[i]
              IN /\ after.map
                 /\ after.parent = ParentUID
                 /\ \A key \in {"app", "version"} :
                       after[key] = ValueOf(before, key)
C36_Witness ==
    /\ harness.fn = "markDesiredKinds" /\ harness.out.done
    /\ Len(harness.labels) = 2
    /\ ~harness.labels[1].map /\ harness.out.labels[1].map
    /\ harness.labels[2].parent = OtherUID
    /\ harness.labels[2].app = "backend"
    /\ harness.labels[2].version = NoValue
    /\ harness.out.labels[2].app = "backend"

\* a List of prune has failed and the call has returned
ListFailed == pc = "done" /\ Failed("List") # <<>>
\* the call has stopped at the failed List, with the parent as it was
StoppedAtList ==
    /\ Len(Failed("List")) = 1
    /\ log[Len(log)].call = "List" /\ log[Len(log)].res # "ok"
    /\ ParentAsBeforePrune
Reports(err, entries) ==
    \A i \in 1..Len(entries) :
        \E j \in 1..Len(err.causes) :
            err.causes[j] = [call |-> entries[i].call, target |-> entries[i].target]
\* C37: when a List of prune fails, prune returns at once: no List or Delete
\* for the kinds after it, no parent Update, the kind list as it was; and
\* the error it returns reports the failed List and every Delete that failed
\* for the kinds before it.
C37_ListFailureReportsDeleteFailures ==
    ListFailed =>
        /\ StoppedAtList
        /\ Reports(ret, Failed("List"))
        /\ Reports(ret, Failed("Delete"))
\* what the code does: the error of the List alone is returned
C37_ListFailureReturnsAtOnce ==
    ListFailed =>
        /\ StoppedAtList
        /\ ret = Aggregated(Failed("List"))
C37_ReturnsAtOnceWitness ==
    /\ ListFailed
    /\ Len(Calls("List")) = 2
    /\ Len(Failed("Delete")) = 1
    /\ Len(Tracked) = 2

RolloutEnded ==
    /\ rollout.phase = "phased"
    /\ pc = "idle" /\ prev.here /\ prev.op = "Prune"
RolloutKeys(cs) == {KeyOf(cs[i]) : i \in 1..Len(cs)}
\* C38: from the same beginning, on a new Reconciler and with no storage call
\* failing, ReconcileWithoutPrune(children) followed by Prune() on the same
\* instance leaves storage (the children, their labels and owners, and the
\* persisted kind list) as a single Reconcile(children) leaves it; and after
\* a further ReconcileWithoutPrune on the instance, Prune() keeps the
\* children applied by both.
C38_TwoPhaseRollout ==
    RolloutEnded =>
        /\ prev.ok
        /\ ~rollout.further =>
              /\ objects = rollout.atOnce.objects
              /\ storedAnno = rollout.atOnce.storedAnno
        /\ rollout.further =>
              \A k \in RolloutKeys(rollout.cs) \cup RolloutKeys(rollout.more) :
                  Labelled(objects, k)
\* a rollout of some children has ended and removed an object of an earlier
\* call; a rollout with a further ReconcileWithoutPrune of other children
C38_Witness ==
    /\ RolloutEnded
    /\ ~rollout.further
    /\ rollout.cs # <<>>
    /\ \E k \in Keys : rollout.start.objects[k] # NoObj /\ objects[k] = NoObj
C38_WitnessOfTheUnion ==
    /\ RolloutEnded
    /\ rollout.further
    /\ RolloutKeys(rollout.more) \ RolloutKeys(rollout.cs) # {}
    /\ RolloutKeys(rollout.cs) \ RolloutKeys(rollout.more) # {}

SameInstance == ~(fresh' /\ ~fresh)
\* C39: over the life of a Reconciler instance no call removes an identity
\* from its keep-set or a kind from its asserted kind list; so a child that
\* an earlier Reconcile or ReconcileWithoutPrune on the instance has stored
\* is never deleted by a later Reconcile or Prune on the instance, desired
\* or not, and its kind, once persisted, stays in the persisted kind list.
C39_InstanceAccumulates ==
    /\ [][SameInstance =>
            /\ UIDSet(assertedUIDs) \subseteq UIDSet(assertedUIDs')
            /\ KindsOf(assertedKinds) \subseteq KindsOf(assertedKinds')]_vars
    /\ [](\A k \in rollout.applied : Labelled(objects, k))
    /\ [](rollout.kinds \subseteq KindsOf(PersistedKinds))
\* a Reconcile or Prune on an instance has deleted an orphan and left a
\* child that an earlier call on the instance stored and that it was not
\* given as desired
C39_Witness ==
    /\ pc = "done" /\ op \in {"Reconcile", "Prune"}
    /\ \E i \in 1..Len(log) : log[i].call = "Delete" /\ log[i].res = "ok"
    /\ rollout.applied \ DesiredKeys # {}

\* a call with nothing desired on a new Reconciler has returned
CleanedUp ==
    /\ pc = "done" /\ pre.fresh
    /\ op = "Prune" \/ (op = "Reconcile" /\ desired = <<>>)
\* the kind list of the parent the Reconciler was made for, as the call read it
KindListRead == GetCompositeState(pre.parentAnno)
NoneFailed(call) == \A i \in 1..Len(log) : log[i].call = call => log[i].res = "ok"
\* C40: Prune() on a new Reconciler, and likewise Reconcile with an empty
\* desired list, deletes every object labelled for the parent of every kind
\* of the parent's kind list (when the Lists and Deletes succeed) and, when
\* the kind list was not empty, writes an empty kind list to the parent in
\* storage; with an empty kind list it issues no List, Delete or Update.
C40_CleanupWithNothingDesired ==
    CleanedUp =>
        /\ (KindListRead # <<>> /\ NoneFailed("List") /\ NoneFailed("Delete")) =>
              /\ \A k \in Keys :
                    (Labelled(pre.objects, k) /\ k.kind \in KindsOf(KindListRead))
                        => objects[k] = NoObj
              /\ Len(Calls("Update")) = 1
              /\ NoneFailed("Update") =>
                    /\ ret = NilErr
                    /\ PersistedKinds = <<>>
        /\ KindListRead = <<>> => log = <<>>
\* the cleanup has deleted two labelled objects and emptied the persisted
\* kind list
C40_Witness ==
    /\ CleanedUp
    /\ ret = NilErr
    /\ Cardinality({k \in Keys : Labelled(pre.objects, k) /\ objects[k] = NoObj}) >= 2
    /\ GetCompositeState(pre.storedAnno) # <<>>
    /\ PersistedKinds = <<>>
\* the cleanup found an empty kind list
C40_WitnessOfNoCalls ==
    /\ CleanedUp
    /\ KindListRead = <<>>
    /\ budget.calls > 1

====
